---- MODULE Spec2Model ----
(***************************************************************************)
(* Verification model of the smartyplants analysis-and-advisory pipeline:  *)
(* the rule-based detector (models/plant_disease_detector.py), the         *)
(* severity estimator (services/plant_analyzer.py), the LogicEngine        *)
(* (services/logic_engine.py), the Gemini orchestrator                     *)
(* (services/gemini_analyzer.py) with its reply parser, the /analyze route *)
(* (routes/analysis_routes.py), the care advisor                           *)
(* (services/care_advisor.py) and the image steps of the rule-based        *)
(* pipeline (services/image_processor.py).                                 *)
(*                                                                         *)
(* Numbers.  Python floats are modelled by exact rationals.  Features are  *)
(* kept in tenths (greenness 10 = 1.0), raw disease scores are kept as     *)
(* integers in units of 1/8000, and a normalised score is the pair         *)
(* num/den so that v / total is exact.                                     *)
(***************************************************************************)
EXTENDS Integers, Sequences, FiniteSets, TLC

VARIABLES
    det_in,     \* detector: the arguments of the last detect_disease call
    det_out,    \* detector: what that call returned
    det_scores, \* detector: the scores _calculate_disease_scores gave in it
    sev_in,     \* severity: the arguments of the last _analyze_severity call
    sev_out,    \* severity: what that call returned
    le_in,      \* LogicEngine: the record given to the last process_analysis
    le_out,     \* LogicEngine: what that call returned
    le_prev,    \* LogicEngine: input and output of the instance's first call
    le_engine,  \* LogicEngine: the instance attributes set by __init__
    le_calls,   \* LogicEngine: the number of process_analysis calls made
    g_req,      \* orchestrator: the request or call being served
    g_pc,       \* orchestrator: where analyze_image / the route stands
    g_model,    \* orchestrator: index in _model_names of the next model
    g_phase,    \* orchestrator: in step 2, "grounded" or "fallback" call next
    g_step1,    \* orchestrator: step1_result
    g_step2,    \* orchestrator: step2_result when step 2 ended
    g_last_error, \* orchestrator: last_error of the step 1 loop
    g_calls,    \* orchestrator: the external calls made, in order
    g_ret,      \* orchestrator: what analyze_image returned
    rt_response, \* route: the response of /analyze
    ca_db, \* care advisor: the class-level CARE_DATABASE
    ca_in, \* care advisor: the analysis given to the last generate_care_plan
    ca_out, \* care advisor: what that call returned
    ca_calls, \* care advisor: the number of detector and advisor calls made
    det_db, \* detector: the class-level DISEASE_DATABASE
    pj_in, \* _parse_json: the payload and the fence it is wrapped in
    pj_out, \* _parse_json: the values returned for the wrapped and the bare text
    pl_in, \* pipeline: the upload given to analyze_plant_image
    pl_out \* pipeline: what analyze_plant_image returned

detVars == <<det_in, det_out, det_scores>>
sevVars == <<sev_in, sev_out>>
leVars == <<le_in, le_out, le_prev, le_engine, le_calls>>
gVars == <<g_req, g_pc, g_model, g_phase, g_step1, g_step2, g_last_error,
           g_calls, g_ret, rt_response>>
caVars == <<ca_db, ca_in, ca_out, ca_calls, det_db>>
pjVars == <<pj_in, pj_out>>
plVars == <<pl_in, pl_out>>
vars == <<det_in, det_out, det_scores, sev_in, sev_out,
          le_in, le_out, le_prev, le_engine, le_calls,
          g_req, g_pc, g_model, g_phase, g_step1, g_step2, g_last_error,
          g_calls, g_ret, rt_response,
          ca_db, ca_in, ca_out, ca_calls, det_db,
          pj_in, pj_out,
          pl_in, pl_out>>

\* Python's None, where a record is expected.
None == [none |-> TRUE]
\* No scores: the call computed none.
NoScores == <<>>

Max(a, b) == IF a >= b THEN a ELSE b
Min(a, b) == IF a <= b THEN a ELSE b
Abs(a) == IF a >= 0 THEN a ELSE 0 - a

RECURSIVE SumSeq(_)
SumSeq(s) == IF s = <<>> THEN 0 ELSE Head(s) + SumSeq(Tail(s))

(***************************************************************************)
(* Bounds of the model.                                                    *)
(***************************************************************************)
\* greenness takes the values 0.0, 0.5, ... , 0.5 * GreenSteps
GreenSteps == 4
\* edge_density takes the values 0.0, 0.5, ... , 0.5 * EdgeSteps
EdgeSteps == 5
\* the longest list of regions of interest given to _analyze_severity
MaxRois == 5

(***************************************************************************)
(* PlantDiseaseDetector                                                    *)
(***************************************************************************)

\* The catalogue labels in declaration (dict insertion) order.
DISEASE_NAMES ==
    <<"healthy", "leaf_spot", "powdery_mildew", "rust",
      "blight", "yellowing", "wilting", "pest_damage">>

\* The catalogue: the static severity of each label (description and causes
\* are static text looked up by the same key and are carried as the key).
DISEASE_DATABASE ==
    [healthy |-> "none", leaf_spot |-> "moderate", powdery_mildew |-> "moderate",
     rust |-> "moderate", blight |-> "severe", yellowing |-> "mild",
     wilting |-> "severe", pest_damage |-> "moderate"]

\* Mutant of Clamp0: the score is not clamped at zero.
Clamp0_Unclamped(x) == x

\* max(0, x)
Clamp0(x) == Max(0, x)

\* Mutant of RawScores: wilting measures brightness from 0, not from 128.
RawScores_WiltingFromZero(g, e, d, b) ==
    <<Clamp0(40 * Min(g, 10) * (20 - e)),
      Clamp0(80 * (3 * (10 - g) + 5 * e + 2 * d)),
      Clamp0(80 * (4 * (10 - g) + 6 * e)),
      Clamp0(8 * (35 * (10 - g) + 45 * e + 20 * d)),
      Clamp0(80 * (7 * (10 - g) + 6 * d)),
      Clamp0(40 * (10 - g) * (10 - e)),
      Clamp0(25 * Abs(b)),
      Clamp0(80 * (7 * e + 3 * d))>>

\* The eight raw scores, each clamped at 0, in units of 1/8000, for
\* greenness g, edge_density e, damaged_pixels_ratio d (tenths) and
\* brightness b (grey levels).
RawScores(g, e, d, b) ==
    <<Clamp0(40 * Min(g, 10) * (20 - e)),
      Clamp0(80 * (3 * (10 - g) + 5 * e + 2 * d)),
      Clamp0(80 * (4 * (10 - g) + 6 * e)),
      Clamp0(8 * (35 * (10 - g) + 45 * e + 20 * d)),
      Clamp0(80 * (7 * (10 - g) + 6 * d)),
      Clamp0(40 * (10 - g) * (10 - e)),
      Clamp0(25 * Abs(b - 128)),
      Clamp0(80 * (7 * e + 3 * d))>>

\* Mutant of Normalize: the scores are left as they are whatever their sum.
Normalize_Skip(raw) ==
    [i \in 1..Len(raw) |-> [num |-> raw[i], den |-> 8000]]

\* The normalisation step: v / total when total > 0, else the scores as they
\* are (a raw score r is the rational r / 8000).
Normalize(raw) ==
    LET total == SumSeq(raw)
    IN  IF total > 0
        THEN [i \in 1..Len(raw) |-> [num |-> raw[i], den |-> total]]
        ELSE [i \in 1..Len(raw) |-> [num |-> raw[i], den |-> 8000]]

\* _calculate_disease_scores: label index -> normalised score num/den.
calculate_disease_scores(features) ==
    Normalize(RawScores(features.greenness, features.edge_density,
                        features.damaged_pixels_ratio, features.brightness))

\* a < b for the rationals a, b (both denominators are positive).
RatLess(a, b) == a.num * b.den < b.num * a.den

\* Mutant of SortedDesc: among equal scores the latest label comes first.
RECURSIVE SortedDesc_TiesReversed(_, _)
SortedDesc_TiesReversed(scores, left) ==
    IF left = {} THEN <<>>
    ELSE LET best == CHOOSE i \in left :
                        \A j \in left \ {i} :
                            \/ RatLess(scores[j], scores[i])
                            \/ (~RatLess(scores[i], scores[j]) /\ i > j)
         IN  <<best>> \o SortedDesc_TiesReversed(scores, left \ {best})

\* sorted(scores.items(), key=score, reverse=True): a stable sort, so labels
\* with equal scores keep their catalogue order.  Selection of the best
\* remaining index, the earliest one among equals.
RECURSIVE SortedDesc(_, _)
SortedDesc(scores, left) ==
    IF left = {} THEN <<>>
    ELSE LET best == CHOOSE i \in left :
                        \A j \in left \ {i} :
                            \/ RatLess(scores[j], scores[i])
                            \/ (~RatLess(scores[i], scores[j]) /\ i < j)
         IN  <<best>> \o SortedDesc(scores, left \ {best})

\* _classify_disease: the five best labels with their catalogue metadata.
classify_disease(features) ==
    LET scores == calculate_disease_scores(features)
        sorted_diseases == SortedDesc(scores, DOMAIN scores)
    IN  [k \in 1..Min(5, Len(sorted_diseases)) |->
            [disease |-> DISEASE_NAMES[sorted_diseases[k]],
             confidence |-> scores[sorted_diseases[k]],
             severity |-> DISEASE_DATABASE[DISEASE_NAMES[sorted_diseases[k]]]]]

\* p['confidence'] >= confidence_threshold, the threshold in hundredths.
AtLeast(conf, threshold) == conf.num * 100 >= threshold * conf.den

\* An image is None or an array described by its shape and by the pixel
\* statistics the feature extractor reduces it to.
\* _calculate_greenness: 0 unless the array has three dimensions.
calculate_greenness(img) == IF img.ndim < 3 THEN 0 ELSE img.green

\* _calculate_edge_density: 0 when there are fewer than 2 rows or columns.
calculate_edge_density(img) ==
    IF img.rows < 2 \/ img.cols < 2 THEN 0 ELSE img.edges

\* _estimate_damage: min(std / 255, 1.0); std is given in units of 25.5.
estimate_damage(img) == Min(img.std, 10)

\* _extract_features raises (IndexError) for a 3-dimensional array with
\* fewer than 3 channels: image_array[:, :, 2].
ExtractRaises(img) == img.ndim = 3 /\ img.channels < 3

\* _extract_features
extract_features(img) ==
    [brightness |-> img.mean,
     greenness |-> calculate_greenness(img),
     edge_density |-> calculate_edge_density(img),
     damaged_pixels_ratio |-> estimate_damage(img)]

\* _format_error_response
format_error_response(msg) ==
    [success |-> FALSE, error |-> msg, predictions |-> <<>>]

\* image_array.size == 0
SizeZero(img) ==
    img.rows * img.cols * (IF img.ndim = 3 THEN img.channels ELSE 1) = 0

\* The list comprehension of detect_disease: the predictions at or above
\* the threshold, in ranked order.
FilterPredictions(predictions, threshold) ==
    SelectSeq(predictions, LAMBDA p : AtLeast(p.confidence, threshold))

\* Mutant of detect_disease: an empty filtered list is returned as it is.
detect_disease_NoFallback(img, confidence_threshold) ==
    IF img.isNone \/ SizeZero(img)
    THEN format_error_response("Invalid image provided")
    ELSE IF ExtractRaises(img)
    THEN format_error_response("Detection failed")
    ELSE LET features == extract_features(img)
             predictions == classify_disease(features)
             filtered == FilterPredictions(predictions, confidence_threshold)
         IN  [success |-> TRUE,
              predictions |-> filtered,
              primary_disease |-> IF filtered = <<>> THEN None ELSE filtered[1],
              feature_analysis |-> features]

\* Mutant of detect_disease: a matrix with fewer than 2 rows or columns is
\* rejected like an empty one.
detect_disease_RejectSmall(img, confidence_threshold) ==
    IF img.isNone \/ SizeZero(img) \/ img.rows < 2 \/ img.cols < 2
    THEN format_error_response("Invalid image provided")
    ELSE IF ExtractRaises(img)
    THEN format_error_response("Detection failed")
    ELSE LET features == extract_features(img)
             predictions == classify_disease(features)
             filtered == FilterPredictions(predictions, confidence_threshold)
             filtered_predictions ==
                 IF filtered = <<>> THEN <<predictions[1]>> ELSE filtered
         IN  [success |-> TRUE,
              predictions |-> filtered_predictions,
              primary_disease |-> filtered_predictions[1],
              feature_analysis |-> features]

\* detect_disease
detect_disease(img, confidence_threshold) ==
    IF img.isNone \/ SizeZero(img)
    THEN format_error_response("Invalid image provided")
    ELSE IF ExtractRaises(img)
    THEN format_error_response("Detection failed")
    ELSE LET features == extract_features(img)
             predictions == classify_disease(features)
             filtered == FilterPredictions(predictions, confidence_threshold)
             filtered_predictions ==
                 IF filtered = <<>> THEN <<predictions[1]>> ELSE filtered
         IN  [success |-> TRUE,
              predictions |-> filtered_predictions,
              primary_disease |-> filtered_predictions[1],
              feature_analysis |-> features]


(***************************************************************************)
(* Detector: inputs and the specification SpecDetector.                    *)
(***************************************************************************)
NoImage ==
    [isNone |-> TRUE, rows |-> 0, cols |-> 0, ndim |-> 0, channels |-> 0,
     green |-> 0, edges |-> 0, std |-> 0, mean |-> 0]

\* (rows, cols, ndim, channels): a colour image, one with a single row, one
\* with a single column, a grayscale matrix, a 3-dimensional array with one
\* channel, an empty array.
Shapes == {<<2, 2, 3, 3>>, <<1, 2, 3, 3>>, <<2, 1, 3, 3>>, <<2, 2, 2, 0>>,
           <<2, 2, 3, 1>>, <<0, 2, 3, 3>>}

GreenVals == {5 * i : i \in 0..GreenSteps}
EdgeVals == {5 * i : i \in 0..EdgeSteps}
StdVals == {0, 3, 7, 12}
MeanVals == {0, 64, 128, 255}

Images ==
    {NoImage} \cup
    {[isNone |-> FALSE, rows |-> sh[1], cols |-> sh[2], ndim |-> sh[3],
      channels |-> sh[4], green |-> g, edges |-> e, std |-> d, mean |-> b] :
        sh \in Shapes, g \in GreenVals, e \in EdgeVals, d \in StdVals,
        b \in MeanVals}

\* confidence_threshold, in hundredths
Thresholds == {0, 10, 30, 70, 100, 150}

\* Whether _extract_features returns for this image.
FeaturesComputable(img) ==
    ~img.isNone /\ ~SizeZero(img) /\ ~ExtractRaises(img)

\* The arguments of the call are drawn at the start; nothing is computed yet.
InitDetector ==
    /\ det_in \in [image : Images, confidence_threshold : Thresholds]
    /\ det_out = None
    /\ det_scores = NoScores
    /\ sev_in = None /\ sev_out = None
    /\ le_in = None /\ le_out = None /\ le_prev = None
    /\ le_engine = None /\ le_calls = 0
    /\ g_req = None /\ g_pc = "off" /\ g_model = 0 /\ g_phase = "none"
    /\ g_step1 = None /\ g_step2 = None /\ g_last_error = None
    /\ g_calls = <<>> /\ g_ret = None /\ rt_response = None
    /\ pl_in = None /\ pl_out = None
    /\ pj_in = None /\ pj_out = None
    /\ ca_db = None /\ ca_in = None /\ ca_out = None /\ ca_calls = 0 /\ det_db = None

\* The call detect_disease(image, confidence_threshold) on the drawn arguments.
DetectDisease ==
    /\ det_out = None
    /\ det_out' = detect_disease(det_in.image, det_in.confidence_threshold)
    /\ det_scores' = IF FeaturesComputable(det_in.image)
                     THEN calculate_disease_scores(extract_features(det_in.image))
                     ELSE NoScores
    /\ UNCHANGED <<det_in, sevVars, leVars, gVars, caVars, pjVars, plVars>>

NextDetector == DetectDisease

\* --- checks on the detector ---------------------------------------------

\* The raw (clamped, unnormalised) sum of the last call's features.
RawTotal ==
    LET f == extract_features(det_in.image)
    IN  SumSeq(RawScores(f.greenness, f.edge_density,
                         f.damaged_pixels_ratio, f.brightness))

\* C1: every score returned by _calculate_disease_scores is >= 0, and when
\* the sum of the raw clamped scores is nonzero the returned scores sum to 1
\* (their numerators add up to their common denominator).
C1_ScoresDistribution ==
    det_scores # NoScores =>
        /\ Len(det_scores) = 8
        /\ \A i \in 1..8 : det_scores[i].num >= 0 /\ det_scores[i].den > 0
        /\ RawTotal # 0 =>
              /\ \A i \in 1..8 : det_scores[i].den = det_scores[1].den
              /\ SumSeq([i \in 1..8 |-> det_scores[i].num]) = det_scores[1].den

\* C1 witness: a call whose 'healthy' formula went negative and was clamped
\* (edge_density above 2.0 with positive greenness), normalised to sum 1.
C1_Witness ==
    /\ det_scores # NoScores
    /\ extract_features(det_in.image).edge_density > 20
    /\ extract_features(det_in.image).greenness > 0
    /\ det_scores[1].num = 0
    /\ RawTotal > 0
    /\ SumSeq([i \in 1..8 |-> det_scores[i].num]) = det_scores[1].den

\* The number k of ranked predictions at or above the threshold t.
CountAtLeast(img, t) ==
    LET ranked == classify_disease(extract_features(img))
    IN  Cardinality({i \in DOMAIN ranked : AtLeast(ranked[i].confidence, t)})

\* C2: for an image whose features can be computed, detect_disease returns
\* exactly max(1, k) predictions; with k = 0 it is the single top-ranked
\* prediction; and raising the threshold never lengthens the list.
C2_PredictionCount ==
    (det_out # None /\ FeaturesComputable(det_in.image)) =>
        LET img == det_in.image
            t == det_in.confidence_threshold
            ranked == classify_disease(extract_features(img))
        IN  /\ det_out.success
            /\ Len(det_out.predictions) = Max(1, CountAtLeast(img, t))
            /\ Len(det_out.predictions) >= 1
            /\ CountAtLeast(img, t) = 0 => det_out.predictions = <<ranked[1]>>
            /\ \A t2 \in Thresholds :
                  t2 >= t => Len(detect_disease(img, t2).predictions)
                                <= Len(det_out.predictions)

\* C2 witness: a call in which no prediction reached the threshold and the
\* single best one was returned.
C2_Witness ==
    /\ det_out # None
    /\ FeaturesComputable(det_in.image)
    /\ CountAtLeast(det_in.image, det_in.confidence_threshold) = 0
    /\ Len(det_out.predictions) = 1

SpecDetector == InitDetector /\ [][NextDetector]_vars


(***************************************************************************)
(* PlantAnalyzer._analyze_severity (the severity estimator)                *)
(***************************************************************************)

\* The standard deviation above which a region counts as affected.
ROI_STD_THRESHOLD == 15

\* _is_roi_affected: np.std(roi['data']) > 15; a region is given by the
\* standard deviation of its pixels.
is_roi_affected(roi) == roi > ROI_STD_THRESHOLD

\* len([roi for roi in roi_list if self._is_roi_affected(roi)])
AffectedCount(roi_list) ==
    Cardinality({i \in 1..Len(roi_list) : is_roi_affected(roi_list[i])})

\* affected_area = affected / max(len(roi_list), 1), as the exact fraction.
AffectedArea(roi_list) ==
    [num |-> AffectedCount(roi_list), den |-> Max(Len(roi_list), 1)]

\* frac > n/10
FracAbove(frac, tenths) == frac.num * 10 > tenths * frac.den

\* Mutant of analyze_severity: the 'moderate' test is made before the
\* 'severe' one.
analyze_severity_ModerateFirst(disease_info, features, roi_list) ==
    LET damage_ratio == features.damaged_pixels_ratio
        affected_area == AffectedArea(roi_list)
        tier == IF damage_ratio > 30 \/ FracAbove(affected_area, 4)
                THEN <<"moderate", "progressing">>
                ELSE IF damage_ratio > 60 \/ FracAbove(affected_area, 7)
                THEN <<"severe", "advancing">>
                ELSE <<"mild", "early_stage">>
    IN  [base_severity |-> disease_info.severity,
         calculated_severity |-> tier[1],
         severity_level |-> tier[1],
         progression_stage |-> tier[2],
         affected_area |-> affected_area,
         damage_extent |-> damage_ratio]

\* _analyze_severity; damage_ratio is in hundredths here.
analyze_severity(disease_info, features, roi_list) ==
    LET damage_ratio == features.damaged_pixels_ratio
        affected_area == AffectedArea(roi_list)
        tier == IF damage_ratio > 60 \/ FracAbove(affected_area, 7)
                THEN <<"severe", "advancing">>
                ELSE IF damage_ratio > 30 \/ FracAbove(affected_area, 4)
                THEN <<"moderate", "progressing">>
                ELSE <<"mild", "early_stage">>
    IN  [base_severity |-> disease_info.severity,
         calculated_severity |-> tier[1],
         severity_level |-> tier[1],
         progression_stage |-> tier[2],
         affected_area |-> affected_area,
         damage_extent |-> damage_ratio]

\* Inputs of the severity estimator.
RECURSIVE SeqsUpTo(_, _)
SeqsUpTo(S, n) ==
    IF n = 0 THEN {<<>>}
    ELSE LET shorter == SeqsUpTo(S, n - 1)
         IN  shorter \cup {Append(q, x) : q \in shorter, x \in S}

RoiStdVals == {0, 15, 16}
RoiLists == SeqsUpTo(RoiStdVals, MaxRois)
\* damaged_pixels_ratio in hundredths
DamageVals == {0, 30, 31, 60, 61, 100}
PrimaryDiseases ==
    {[disease |-> DISEASE_NAMES[i], severity |-> DISEASE_DATABASE[DISEASE_NAMES[i]]] :
        i \in {1, 5, 6}}

InitSeverity ==
    /\ sev_in \in [disease_info : PrimaryDiseases,
                   features : [damaged_pixels_ratio : DamageVals],
                   roi_list : RoiLists]
    /\ sev_out = None
    /\ det_in = None /\ det_out = None /\ det_scores = NoScores
    /\ le_in = None /\ le_out = None /\ le_prev = None
    /\ le_engine = None /\ le_calls = 0
    /\ g_req = None /\ g_pc = "off" /\ g_model = 0 /\ g_phase = "none"
    /\ g_step1 = None /\ g_step2 = None /\ g_last_error = None
    /\ g_calls = <<>> /\ g_ret = None /\ rt_response = None
    /\ pl_in = None /\ pl_out = None
    /\ pj_in = None /\ pj_out = None
    /\ ca_db = None /\ ca_in = None /\ ca_out = None /\ ca_calls = 0 /\ det_db = None

\* The call _analyze_severity(disease_info, features, roi_list).
AnalyzeSeverity ==
    /\ sev_out = None
    /\ sev_out' = analyze_severity(sev_in.disease_info, sev_in.features,
                                   sev_in.roi_list)
    /\ UNCHANGED <<sev_in, detVars, leVars, gVars, caVars, pjVars, plVars>>

NextSeverity == AnalyzeSeverity

SpecSeverity == InitSeverity /\ [][NextSeverity]_vars

\* --- checks on the severity estimator -----------------------------------

\* mild < moderate < severe
TierRank(tier) ==
    CASE tier = "mild" -> 1 [] tier = "moderate" -> 2 [] tier = "severe" -> 3

\* a <= b for fractions with positive denominators
FracLeq(a, b) == a.num * b.den <= b.num * a.den

\* C3: the tier is 'severe' iff damage_ratio > 0.6 or affected_area > 0.7,
\* else 'moderate' iff damage_ratio > 0.3 or affected_area > 0.4, else
\* 'mild'; raising damage_ratio or affected_area alone never lowers the
\* tier; progression_stage follows the tier one to one.
C3_SeverityTiers ==
    sev_out # None =>
        LET d == sev_in.features.damaged_pixels_ratio
            a == AffectedArea(sev_in.roi_list)
            tier == sev_out.calculated_severity
            isSevere == d > 60 \/ a.num * 10 > 7 * a.den
            isModerate == d > 30 \/ a.num * 10 > 4 * a.den
        IN  /\ tier \in {"mild", "moderate", "severe"}
            /\ (tier = "severe") <=> isSevere
            /\ (tier = "moderate") <=> (~isSevere /\ isModerate)
            /\ (tier = "mild") <=> (~isSevere /\ ~isModerate)
            /\ sev_out.severity_level = tier
            /\ (tier = "severe") <=> (sev_out.progression_stage = "advancing")
            /\ (tier = "moderate") <=> (sev_out.progression_stage = "progressing")
            /\ (tier = "mild") <=> (sev_out.progression_stage = "early_stage")
            /\ \A d2 \in DamageVals :
                  d2 >= d =>
                     TierRank(analyze_severity(sev_in.disease_info,
                                  [damaged_pixels_ratio |-> d2],
                                  sev_in.roi_list).calculated_severity)
                        >= TierRank(tier)
            /\ \A r2 \in RoiLists :
                  FracLeq(a, AffectedArea(r2)) =>
                     TierRank(analyze_severity(sev_in.disease_info,
                                  sev_in.features, r2).calculated_severity)
                        >= TierRank(tier)

\* C3 witness: a call that is 'severe' through the affected area alone
\* (damage_ratio at most 0.3), reported as 'advancing'.
C3_Witness ==
    /\ sev_out # None
    /\ sev_in.features.damaged_pixels_ratio <= 30
    /\ sev_out.calculated_severity = "severe"
    /\ sev_out.progression_stage = "advancing"


(***************************************************************************)
(* LogicEngine.  Texts are sequences of characters, so that keyword        *)
(* membership ("kw in text") is the substring test the code makes.         *)
(***************************************************************************)

\* s[i:i+n] = kw for some i: Python's "kw in text".
Contains(text, kw) ==
    \E i \in 0..(Len(text) - Len(kw)) : SubSeq(text, i + 1, i + Len(kw)) = kw

\* any(k in text for k in keywords)
ContainsAny(text, keywords) ==
    \E k \in 1..Len(keywords) : Contains(text, keywords[k])

\* str.lower() on one character
LowerChar(c) ==
    CASE c = "A" -> "a"
      [] c = "B" -> "b"
      [] c = "C" -> "c"
      [] c = "D" -> "d"
      [] c = "E" -> "e"
      [] c = "F" -> "f"
      [] c = "G" -> "g"
      [] c = "H" -> "h"
      [] c = "I" -> "i"
      [] c = "J" -> "j"
      [] c = "K" -> "k"
      [] c = "L" -> "l"
      [] c = "M" -> "m"
      [] c = "N" -> "n"
      [] c = "O" -> "o"
      [] c = "P" -> "p"
      [] c = "Q" -> "q"
      [] c = "R" -> "r"
      [] c = "S" -> "s"
      [] c = "T" -> "t"
      [] c = "U" -> "u"
      [] c = "V" -> "v"
      [] c = "W" -> "w"
      [] c = "X" -> "x"
      [] c = "Y" -> "y"
      [] c = "Z" -> "z"
      [] OTHER -> c

\* str.lower()
Lower(text) == [i \in 1..Len(text) |-> LowerChar(text[i])]

\* LogicEngine.FUNGAL_DISEASES
FUNGAL_DISEASES ==
    <<<<"p", "o", "w", "d", "e", "r", "y", " ", "m", "i", "l", "d", "e", "w">>,
      <<"l", "e", "a", "f", " ", "s", "p", "o", "t">>,
      <<"r", "u", "s", "t">>,
      <<"b", "l", "i", "g", "h", "t">>,
      <<"a", "n", "t", "h", "r", "a", "c", "n", "o", "s", "e">>,
      <<"d", "a", "m", "p", "i", "n", "g", " ", "o", "f", "f">>,
      <<"r", "o", "o", "t", " ", "r", "o", "t">>,
      <<"m", "i", "l", "d", "e", "w">>>>

\* LogicEngine.BACTERIAL_DISEASES
BACTERIAL_DISEASES ==
    <<<<"b", "a", "c", "t", "e", "r", "i", "a", "l", " ", "l", "e", "a", "f", " ", "s", "p", "o", "t">>,
      <<"b", "a", "c", "t", "e", "r", "i", "a", "l", " ", "b", "l", "i", "g", "h", "t">>,
      <<"c", "r", "o", "w", "n", " ", "g", "a", "l", "l">>,
      <<"b", "a", "c", "t", "e", "r", "i", "a", "l", " ", "w", "i", "l", "t">>,
      <<"f", "i", "r", "e", " ", "b", "l", "i", "g", "h", "t">>>>

\* LogicEngine.VIRAL_DISEASES
VIRAL_DISEASES ==
    <<<<"m", "o", "s", "a", "i", "c", " ", "v", "i", "r", "u", "s">>,
      <<"l", "e", "a", "f", " ", "c", "u", "r", "l", " ", "v", "i", "r", "u", "s">>,
      <<"v", "i", "r", "a", "l", " ", "i", "n", "f", "e", "c", "t", "i", "o", "n">>,
      <<"v", "i", "r", "u", "s", " ", "d", "i", "s", "e", "a", "s", "e">>>>

\* LogicEngine.ENVIRONMENTAL_STRESSES
ENVIRONMENTAL_STRESSES ==
    <<<<"w", "a", "t", "e", "r", " ", "s", "t", "r", "e", "s", "s">>,
      <<"d", "r", "o", "u", "g", "h", "t", " ", "s", "t", "r", "e", "s", "s">>,
      <<"o", "v", "e", "r", "w", "a", "t", "e", "r", "i", "n", "g">>,
      <<"n", "u", "t", "r", "i", "e", "n", "t", " ", "d", "e", "f", "i", "c", "i", "e", "n", "c", "y">>,
      <<"n", "i", "t", "r", "o", "g", "e", "n", " ", "d", "e", "f", "i", "c", "i", "e", "n", "c", "y">>,
      <<"p", "h", "o", "s", "p", "h", "o", "r", "u", "s", " ", "d", "e", "f", "i", "c", "i", "e", "n", "c", "y">>,
      <<"p", "o", "t", "a", "s", "s", "i", "u", "m", " ", "d", "e", "f", "i", "c", "i", "e", "n", "c", "y">>,
      <<"c", "h", "l", "o", "r", "o", "s", "i", "s">>,
      <<"y", "e", "l", "l", "o", "w", "i", "n", "g">>,
      <<"s", "u", "n", "b", "u", "r", "n">>,
      <<"c", "o", "l", "d", " ", "d", "a", "m", "a", "g", "e">>,
      <<"h", "e", "a", "t", " ", "s", "t", "r", "e", "s", "s">>>>

\* water_indicators of _is_water_stress
WATER_INDICATORS ==
    <<<<"d", "r", "o", "u", "g", "h", "t">>,
      <<"w", "a", "t", "e", "r">>,
      <<"d", "r", "y">>,
      <<"w", "i", "l", "t">>,
      <<"o", "v", "e", "r", "w", "a", "t", "e", "r">>>>

\* nutrient_indicators of _is_nutrient_deficiency
NUTRIENT_INDICATORS ==
    <<<<"n", "u", "t", "r", "i", "e", "n", "t">>,
      <<"n", "i", "t", "r", "o", "g", "e", "n">>,
      <<"p", "h", "o", "s", "p", "h", "o", "r", "u", "s">>,
      <<"p", "o", "t", "a", "s", "s", "i", "u", "m">>,
      <<"d", "e", "f", "i", "c", "i", "e", "n", "c", "y">>,
      <<"c", "h", "l", "o", "r", "o", "s", "i", "s">>,
      <<"y", "e", "l", "l", "o", "w", "i", "n", "g">>,
      <<"p", "a", "l", "e">>>>

\* disease_indicators of _is_disease
DISEASE_INDICATORS ==
    <<<<"d", "i", "s", "e", "a", "s", "e">>,
      <<"i", "n", "f", "e", "c", "t", "i", "o", "n">>,
      <<"f", "u", "n", "g", "a", "l">>,
      <<"b", "a", "c", "t", "e", "r", "i", "a", "l">>,
      <<"v", "i", "r", "a", "l">>,
      <<"b", "l", "i", "g", "h", "t">>,
      <<"r", "u", "s", "t">>,
      <<"m", "i", "l", "d", "e", "w">>,
      <<"s", "p", "o", "t">>,
      <<"r", "o", "t">>>>

\* 'pest'
STR_PEST == <<"p", "e", "s", "t">>
\* 'insect'
STR_INSECT == <<"i", "n", "s", "e", "c", "t">>
\* 'healthy'
STR_HEALTHY == <<"h", "e", "a", "l", "t", "h", "y">>
\* 'no disease'
STR_NO_DISEASE == <<"n", "o", " ", "d", "i", "s", "e", "a", "s", "e">>
\* 'ENVIRONMENTAL_STRESS'
STR_ENVIRONMENTAL_STRESS_UPPER == <<"E", "N", "V", "I", "R", "O", "N", "M", "E", "N", "T", "A", "L", "_", "S", "T", "R", "E", "S", "S">>
\* 'drought'
STR_DROUGHT == <<"d", "r", "o", "u", "g", "h", "t">>
\* 'dry'
STR_DRY == <<"d", "r", "y">>
\* ' '
STR_SPACE == <<" ">>
\* 'unknown'
STR_UNKNOWN == <<"u", "n", "k", "n", "o", "w", "n">>
\* 'severe'
STR_SEVERE == <<"s", "e", "v", "e", "r", "e">>
\* 'moderate'
STR_MODERATE == <<"m", "o", "d", "e", "r", "a", "t", "e">>
\* 'mild'
STR_MILD == <<"m", "i", "l", "d">>

\* The diagnosis texts the model feeds the engine:
\*   'Powdery Mildew'
\*   'bacterial leaf spot'
\*   'crown gall'
\*   'mosaic virus'
\*   'mosaic virus rust'
\*   'overwatering'
\*   'yellowing'
\*   'heat stress'
\*   'drought stress'
\*   'pest damage'
\*   'healthy'
\*   'unknown'
\*   ''
Diagnoses ==
    {<<"P", "o", "w", "d", "e", "r", "y", " ", "M", "i", "l", "d", "e", "w">>,
     <<"b", "a", "c", "t", "e", "r", "i", "a", "l", " ", "l", "e", "a", "f", " ", "s", "p", "o", "t">>,
     <<"c", "r", "o", "w", "n", " ", "g", "a", "l", "l">>,
     <<"m", "o", "s", "a", "i", "c", " ", "v", "i", "r", "u", "s">>,
     <<"m", "o", "s", "a", "i", "c", " ", "v", "i", "r", "u", "s", " ", "r", "u", "s", "t">>,
     <<"o", "v", "e", "r", "w", "a", "t", "e", "r", "i", "n", "g">>,
     <<"y", "e", "l", "l", "o", "w", "i", "n", "g">>,
     <<"h", "e", "a", "t", " ", "s", "t", "r", "e", "s", "s">>,
     <<"d", "r", "o", "u", "g", "h", "t", " ", "s", "t", "r", "e", "s", "s">>,
     <<"p", "e", "s", "t", " ", "d", "a", "m", "a", "g", "e">>,
     <<"h", "e", "a", "l", "t", "h", "y">>,
     <<"u", "n", "k", "n", "o", "w", "n">>,
     <<>>}

\* The raw_analysis texts: 'dry soil', 'pale'
RawTexts ==
    {<<"d", "r", "y", " ", "s", "o", "i", "l">>,
     <<"p", "a", "l", "e">>}

\* The severity labels: 'mild', 'moderate', 'severe', 'Severe', 'none'
SeverityTexts ==
    {<<"m", "i", "l", "d">>,
     <<"m", "o", "d", "e", "r", "a", "t", "e">>,
     <<"s", "e", "v", "e", "r", "e">>,
     <<"S", "e", "v", "e", "r", "e">>,
     <<"n", "o", "n", "e">>}

\* Thresholds of the engine (class attributes).
HIGH_CONFIDENCE_THRESHOLD == 80
MEDIUM_CONFIDENCE_THRESHOLD == 50
\* Mutant of HEALTH_CRITICAL_THRESHOLD: the critical band ends below 20.
HEALTH_CRITICAL_THRESHOLD_Low == 20 - 5
HEALTH_CRITICAL_THRESHOLD == 20
HEALTH_POOR_THRESHOLD == 40
HEALTH_FAIR_THRESHOLD == 60
\* Mutant of HEALTH_GOOD_THRESHOLD: the good band starts at the fair bound.
HEALTH_GOOD_THRESHOLD_AsFair == HEALTH_FAIR_THRESHOLD
HEALTH_GOOD_THRESHOLD == 80

\* LogicEngine.__init__: the instance attributes.
EngineInit ==
    [low_confidence_threshold |-> MEDIUM_CONFIDENCE_THRESHOLD,
     urgent_action_threshold |-> HEALTH_CRITICAL_THRESHOLD]

is_fungal_disease(text) == ContainsAny(Lower(text), FUNGAL_DISEASES)
is_bacterial_disease(text) == ContainsAny(Lower(text), BACTERIAL_DISEASES)
is_viral_disease(text) == ContainsAny(Lower(text), VIRAL_DISEASES)
is_water_stress(diagnosis, raw_analysis) ==
    ContainsAny(Lower(diagnosis \o STR_SPACE \o raw_analysis), WATER_INDICATORS)
is_nutrient_deficiency(diagnosis, raw_analysis) ==
    ContainsAny(Lower(diagnosis \o STR_SPACE \o raw_analysis), NUTRIENT_INDICATORS)
is_environmental_stress(text) == ContainsAny(Lower(text), ENVIRONMENTAL_STRESSES)
is_disease(text) == ContainsAny(Lower(text), DISEASE_INDICATORS)

\* conditions.append(tag) when the test holds
AppendIf(conditions, test, tag) ==
    IF test THEN Append(conditions, tag) ELSE conditions

\* Mutant of evaluate_conditions: CONDITION 2 appends the tag of CONDITION 1
\* a second time.
evaluate_conditions_DuplicateTag(engine, diagnosis, confidence, health_score, severity, raw_analysis) ==
    LET c1 == AppendIf(<<>>, confidence < engine.low_confidence_threshold,
                       "LOW_CONFIDENCE_DIAGNOSIS")
        c2 == AppendIf(c1, confidence < MEDIUM_CONFIDENCE_THRESHOLD,
                       "LOW_CONFIDENCE_DIAGNOSIS")
        c3 == AppendIf(c2, confidence >= HIGH_CONFIDENCE_THRESHOLD,
                       "HIGH_CONFIDENCE_DIAGNOSIS")
        c4 == AppendIf(c3, health_score <= HEALTH_CRITICAL_THRESHOLD,
                       "CRITICAL_PLANT_HEALTH")
        c5 == AppendIf(c4, health_score <= HEALTH_POOR_THRESHOLD,
                       "POOR_PLANT_HEALTH")
        c6 == AppendIf(c5, health_score <= HEALTH_FAIR_THRESHOLD,
                       "FAIR_PLANT_HEALTH")
        c7 == AppendIf(c6, health_score >= HEALTH_GOOD_THRESHOLD,
                       "GOOD_PLANT_HEALTH")
        c8 == AppendIf(c7, is_fungal_disease(diagnosis),
                       "FUNGAL_DISEASE_DETECTED")
        c9 == AppendIf(c8, is_bacterial_disease(diagnosis),
                       "BACTERIAL_DISEASE_DETECTED")
        c10 == AppendIf(c9, is_viral_disease(diagnosis),
                        "VIRAL_DISEASE_DETECTED")
        c11 == AppendIf(c10, is_water_stress(diagnosis, raw_analysis),
                        "WATER_STRESS_DETECTED")
        c12 == AppendIf(c11, is_nutrient_deficiency(diagnosis, raw_analysis),
                        "NUTRIENT_DEFICIENCY_DETECTED")
        c13 == AppendIf(c12, severity = STR_SEVERE, "SEVERE_DISEASE")
        c14 == AppendIf(c13, severity = STR_MODERATE, "MODERATE_DISEASE")
        c15 == AppendIf(c14, severity = STR_MILD, "MILD_DISEASE")
        c16 == AppendIf(c15, health_score <= HEALTH_CRITICAL_THRESHOLD
                                /\ severity = STR_SEVERE,
                        "EMERGENCY_INTERVENTION_NEEDED")
        c17 == AppendIf(c16, is_environmental_stress(diagnosis)
                                /\ ~is_disease(diagnosis),
                        "ENVIRONMENTAL_STRESS_ONLY")
        c18 == AppendIf(c17, health_score >= HEALTH_GOOD_THRESHOLD
                                /\ confidence >= MEDIUM_CONFIDENCE_THRESHOLD,
                        "PLANT_APPEARS_HEALTHY")
    IN  c18

\* _evaluate_conditions: the eighteen tests, in order.
evaluate_conditions(engine, diagnosis, confidence, health_score, severity, raw_analysis) ==
    LET c1 == AppendIf(<<>>, confidence < engine.low_confidence_threshold,
                       "LOW_CONFIDENCE_DIAGNOSIS")
        c2 == AppendIf(c1, confidence < MEDIUM_CONFIDENCE_THRESHOLD,
                       "AMBIGUOUS_DIAGNOSIS")
        c3 == AppendIf(c2, confidence >= HIGH_CONFIDENCE_THRESHOLD,
                       "HIGH_CONFIDENCE_DIAGNOSIS")
        c4 == AppendIf(c3, health_score <= HEALTH_CRITICAL_THRESHOLD,
                       "CRITICAL_PLANT_HEALTH")
        c5 == AppendIf(c4, health_score <= HEALTH_POOR_THRESHOLD,
                       "POOR_PLANT_HEALTH")
        c6 == AppendIf(c5, health_score <= HEALTH_FAIR_THRESHOLD,
                       "FAIR_PLANT_HEALTH")
        c7 == AppendIf(c6, health_score >= HEALTH_GOOD_THRESHOLD,
                       "GOOD_PLANT_HEALTH")
        c8 == AppendIf(c7, is_fungal_disease(diagnosis),
                       "FUNGAL_DISEASE_DETECTED")
        c9 == AppendIf(c8, is_bacterial_disease(diagnosis),
                       "BACTERIAL_DISEASE_DETECTED")
        c10 == AppendIf(c9, is_viral_disease(diagnosis),
                        "VIRAL_DISEASE_DETECTED")
        c11 == AppendIf(c10, is_water_stress(diagnosis, raw_analysis),
                        "WATER_STRESS_DETECTED")
        c12 == AppendIf(c11, is_nutrient_deficiency(diagnosis, raw_analysis),
                        "NUTRIENT_DEFICIENCY_DETECTED")
        c13 == AppendIf(c12, severity = STR_SEVERE, "SEVERE_DISEASE")
        c14 == AppendIf(c13, severity = STR_MODERATE, "MODERATE_DISEASE")
        c15 == AppendIf(c14, severity = STR_MILD, "MILD_DISEASE")
        c16 == AppendIf(c15, health_score <= HEALTH_CRITICAL_THRESHOLD
                                /\ severity = STR_SEVERE,
                        "EMERGENCY_INTERVENTION_NEEDED")
        c17 == AppendIf(c16, is_environmental_stress(diagnosis)
                                /\ ~is_disease(diagnosis),
                        "ENVIRONMENTAL_STRESS_ONLY")
        c18 == AppendIf(c17, health_score >= HEALTH_GOOD_THRESHOLD
                                /\ confidence >= MEDIUM_CONFIDENCE_THRESHOLD,
                        "PLANT_APPEARS_HEALTHY")
    IN  c18

\* Mutant of le_classify_disease: the bacterial family is tested first.
le_classify_disease_BacterialFirst(diagnosis) ==
    LET diagnosis_lower == Lower(diagnosis)
    IN  IF is_bacterial_disease(diagnosis_lower) THEN "BACTERIAL"
        ELSE IF is_fungal_disease(diagnosis_lower) THEN "FUNGAL"
        ELSE IF is_viral_disease(diagnosis_lower) THEN "VIRAL"
        ELSE IF is_environmental_stress(diagnosis_lower) THEN "ENVIRONMENTAL"
        ELSE IF Contains(diagnosis_lower, STR_PEST)
                \/ Contains(diagnosis_lower, STR_INSECT) THEN "PEST_DAMAGE"
        ELSE IF Contains(diagnosis_lower, STR_HEALTHY)
                \/ Contains(diagnosis_lower, STR_NO_DISEASE) THEN "HEALTHY"
        ELSE "UNKNOWN"

\* _classify_disease (LogicEngine): the first family that matches.
le_classify_disease(diagnosis) ==
    LET diagnosis_lower == Lower(diagnosis)
    IN  IF is_fungal_disease(diagnosis_lower) THEN "FUNGAL"
        ELSE IF is_bacterial_disease(diagnosis_lower) THEN "BACTERIAL"
        ELSE IF is_viral_disease(diagnosis_lower) THEN "VIRAL"
        ELSE IF is_environmental_stress(diagnosis_lower) THEN "ENVIRONMENTAL"
        ELSE IF Contains(diagnosis_lower, STR_PEST)
                \/ Contains(diagnosis_lower, STR_INSECT) THEN "PEST_DAMAGE"
        ELSE IF Contains(diagnosis_lower, STR_HEALTHY)
                \/ Contains(diagnosis_lower, STR_NO_DISEASE) THEN "HEALTHY"
        ELSE "UNKNOWN"

\* x in conditions
InSeq(x, s) == \E i \in 1..Len(s) : s[i] = x

\* One suggestion (its detail steps are fixed text that goes with the action).
Suggestion(type, priority, action) ==
    [type |-> type, priority |-> priority, action |-> action]

\* _generate_suggestions
generate_suggestions(engine, diagnosis, confidence, health_score, severity, disease_category) ==
    LET again == evaluate_conditions(engine, diagnosis, confidence,
                                     health_score, severity, diagnosis)
        s1 == IF disease_category = "FUNGAL"
              THEN IF severity = STR_SEVERE
                   THEN <<Suggestion("FUNGAL_DISEASE_TREATMENT", "URGENT",
                                     "Apply fungicide immediately")>>
                   ELSE IF severity = STR_MODERATE
                   THEN <<Suggestion("FUNGAL_DISEASE_TREATMENT", "HIGH",
                                     "Treat fungal infection")>>
                   ELSE <<Suggestion("FUNGAL_DISEASE_TREATMENT", "MEDIUM",
                                     "Monitor and treat early fungal signs")>>
              ELSE <<>>
        s2 == IF disease_category = "BACTERIAL"
              THEN IF severity = STR_SEVERE
                   THEN <<Suggestion("BACTERIAL_DISEASE_TREATMENT", "URGENT",
                                     "Address bacterial infection urgently")>>
                   ELSE <<Suggestion("BACTERIAL_DISEASE_TREATMENT", "HIGH",
                                     "Treat bacterial infection")>>
              ELSE <<>>
        s3 == IF disease_category = "VIRAL"
              THEN <<Suggestion("VIRAL_DISEASE_TREATMENT", "URGENT",
                                "Manage viral infection")>>
              ELSE <<>>
        s4 == IF InSeq("WATER_STRESS_DETECTED", again)
              THEN IF Contains(Lower(diagnosis), STR_DROUGHT)
                      \/ Contains(Lower(diagnosis), STR_DRY)
                   THEN <<Suggestion("WATER_MANAGEMENT", "HIGH",
                                     "Address drought stress")>>
                   ELSE <<Suggestion("WATER_MANAGEMENT", "HIGH",
                                     "Reduce watering")>>
              ELSE <<>>
        s5 == IF InSeq("NUTRIENT_DEFICIENCY_DETECTED", again)
              THEN <<Suggestion("NUTRIENT_MANAGEMENT", "MEDIUM",
                                "Address nutrient deficiency")>>
              ELSE <<>>
        s6 == IF confidence < MEDIUM_CONFIDENCE_THRESHOLD
              THEN <<Suggestion("DIAGNOSIS_CLARIFICATION", "HIGH",
                                "Get professional confirmation")>>
              ELSE <<>>
        s7 == IF disease_category = "ENVIRONMENTAL"
              THEN <<Suggestion("ENVIRONMENTAL_ADJUSTMENT", "MEDIUM",
                                "Improve growing conditions")>>
              ELSE <<>>
        s8 == IF disease_category = "PEST_DAMAGE"
              THEN <<Suggestion("PEST_MANAGEMENT", "HIGH", "Control pests")>>
              ELSE <<>>
        s9 == IF health_score >= HEALTH_GOOD_THRESHOLD
                 \/ disease_category = "HEALTHY"
              THEN <<Suggestion("PREVENTATIVE_CARE", "LOW",
                                "Maintain plant health")>>
              ELSE <<>>
    IN  s1 \o s2 \o s3 \o s4 \o s5 \o s6 \o s7 \o s8 \o s9

\* _generate_urgent_actions
generate_urgent_actions(health_score, severity, disease_category) ==
    LET a1 == AppendIf(<<>>, health_score <= HEALTH_CRITICAL_THRESHOLD,
                       "ISOLATE PLANT: Prevent disease spread to other plants")
        a2 == AppendIf(a1, severity = STR_SEVERE,
                       "TREAT IMMEDIATELY: Disease is advancing rapidly")
        a3 == AppendIf(a2, disease_category = "FUNGAL" /\ severity = STR_SEVERE,
                       "APPLY FUNGICIDE: Fungal diseases spread quickly")
        a4 == AppendIf(a3, disease_category = "VIRAL",
                       "CONSIDER REMOVAL: Viruses cannot be cured, only contained")
        a5 == AppendIf(a4, health_score <= HEALTH_CRITICAL_THRESHOLD
                              /\ disease_category = "ENVIRONMENTAL",
                       "CHANGE CONDITIONS: Environmental stress is critical")
        a6 == AppendIf(a5, disease_category = "PEST_DAMAGE" /\ severity = STR_SEVERE,
                       "ISOLATE AND TREAT: Pest infestation is severe")
    IN  a6

\* Mutant of RiskLevel: the comparisons are strict.
RiskLevel_Strict(risk_score) ==
    IF risk_score > 75 THEN "CRITICAL"
    ELSE IF risk_score > 50 THEN "HIGH"
    ELSE IF risk_score > 25 THEN "MEDIUM"
    ELSE "LOW"

\* The bucket of a risk score.
RiskLevel(risk_score) ==
    IF risk_score >= 75 THEN "CRITICAL"
    ELSE IF risk_score >= 50 THEN "HIGH"
    ELSE IF risk_score >= 25 THEN "MEDIUM"
    ELSE "LOW"

\* Mutant of _assess_risk: the spread-risk increment is withheld from a
\* diagnosis that names environmental stress, in whatever case.
assess_risk_StressExempt(diagnosis, health_score, severity) ==
    LET f1 == IF health_score <= HEALTH_CRITICAL_THRESHOLD
              THEN <<40, <<"Critical plant health">> >>
              ELSE IF health_score <= HEALTH_POOR_THRESHOLD
              THEN <<25, <<"Poor plant health">> >>
              ELSE <<0, <<>> >>
        f2 == IF severity = STR_SEVERE
              THEN <<30, <<"Severe disease status">> >>
              ELSE IF severity = STR_MODERATE
              THEN <<15, <<"Moderate disease status">> >>
              ELSE <<0, <<>> >>
        f3 == IF is_viral_disease(diagnosis)
              THEN <<20, <<"Viral disease (incurable)">> >>
              ELSE IF is_fungal_disease(diagnosis)
              THEN <<15, <<"Fungal disease (spreads quickly)">> >>
              ELSE <<0, <<>> >>
        f4 == IF ~Contains(Lower(diagnosis), Lower(STR_ENVIRONMENTAL_STRESS_UPPER))
              THEN 5 ELSE 0
        risk_score == Min(f1[1] + f2[1] + f3[1] + f4, 100)
    IN  [risk_score |-> risk_score,
         risk_level |-> RiskLevel(risk_score),
         risk_factors |-> f1[2] \o f2[2] \o f3[2]]

\* _assess_risk
assess_risk(diagnosis, health_score, severity) ==
    LET f1 == IF health_score <= HEALTH_CRITICAL_THRESHOLD
              THEN <<40, <<"Critical plant health">> >>
              ELSE IF health_score <= HEALTH_POOR_THRESHOLD
              THEN <<25, <<"Poor plant health">> >>
              ELSE <<0, <<>> >>
        f2 == IF severity = STR_SEVERE
              THEN <<30, <<"Severe disease status">> >>
              ELSE IF severity = STR_MODERATE
              THEN <<15, <<"Moderate disease status">> >>
              ELSE <<0, <<>> >>
        f3 == IF is_viral_disease(diagnosis)
              THEN <<20, <<"Viral disease (incurable)">> >>
              ELSE IF is_fungal_disease(diagnosis)
              THEN <<15, <<"Fungal disease (spreads quickly)">> >>
              ELSE <<0, <<>> >>
        f4 == IF ~Contains(Lower(diagnosis), STR_ENVIRONMENTAL_STRESS_UPPER)
              THEN 5 ELSE 0
        risk_score == Min(f1[1] + f2[1] + f3[1] + f4, 100)
    IN  [risk_score |-> risk_score,
         risk_level |-> RiskLevel(risk_score),
         risk_factors |-> f1[2] \o f2[2] \o f3[2]]

\* Mutant of determine_followup: a diagnosis of low confidence is followed
\* daily.
determine_followup_ByConfidence(confidence, health_score) ==
    IF confidence < MEDIUM_CONFIDENCE_THRESHOLD
          \/ health_score <= HEALTH_CRITICAL_THRESHOLD
    THEN [schedule |-> "DAILY", days |-> 1, duration_days |-> 7,
          reason |-> "Plant is in critical condition"]
    ELSE IF health_score <= HEALTH_POOR_THRESHOLD
    THEN [schedule |-> "EVERY_2_3_DAYS", days |-> 3, duration_days |-> 14,
          reason |-> "Plant health is poor"]
    ELSE IF health_score <= HEALTH_FAIR_THRESHOLD
    THEN [schedule |-> "WEEKLY", days |-> 7, duration_days |-> 30,
          reason |-> "Plant health is fair"]
    ELSE [schedule |-> "BI_WEEKLY", days |-> 14, duration_days |-> 60,
          reason |-> "Plant appears healthy"]

\* _determine_followup
determine_followup(confidence, health_score) ==
    IF health_score <= HEALTH_CRITICAL_THRESHOLD
    THEN [schedule |-> "DAILY", days |-> 1, duration_days |-> 7,
          reason |-> "Plant is in critical condition"]
    ELSE IF health_score <= HEALTH_POOR_THRESHOLD
    THEN [schedule |-> "EVERY_2_3_DAYS", days |-> 3, duration_days |-> 14,
          reason |-> "Plant health is poor"]
    ELSE IF health_score <= HEALTH_FAIR_THRESHOLD
    THEN [schedule |-> "WEEKLY", days |-> 7, duration_days |-> 30,
          reason |-> "Plant health is fair"]
    ELSE [schedule |-> "BI_WEEKLY", days |-> 14, duration_days |-> 60,
          reason |-> "Plant appears healthy"]

\* Mutant of create_error_response: no urgent action is reported.
create_error_response_NoAction(error_message) ==
    [original_analysis |-> error_message,
     confidence |-> 0,
     health_score |-> 50,
     severity |-> STR_UNKNOWN,
     conditions |-> <<"ERROR_PROCESSING_ANALYSIS">>,
     suggestions |-> <<>>,
     urgent_actions |-> <<>>,
     disease_category |-> "None",
     risk_assessment |-> [risk_score |-> 50, risk_level |-> "UNKNOWN",
                          risk_factors |-> <<error_message>>],
     follow_up |-> [schedule |-> "IMMEDIATE_REVIEW", reason |-> error_message]]

\* _create_error_response
create_error_response(error_message) ==
    [original_analysis |-> error_message,
     confidence |-> 0,
     health_score |-> 50,
     severity |-> STR_UNKNOWN,
     conditions |-> <<"ERROR_PROCESSING_ANALYSIS">>,
     suggestions |-> <<>>,
     urgent_actions |-> <<"Error: " \o error_message>>,
     disease_category |-> "None",
     risk_assessment |-> [risk_score |-> 50, risk_level |-> "UNKNOWN",
                          risk_factors |-> <<error_message>>],
     follow_up |-> [schedule |-> "IMMEDIATE_REVIEW", reason |-> error_message]]

\* dict.get(key, default): a key of the record is present with a value, or
\* absent.
Get(field, default) == IF field.present THEN field.value ELSE default

\* process_analysis
process_analysis(engine, ai_analysis) ==
    IF ai_analysis.empty
    THEN create_error_response("Empty analysis")
    ELSE LET diagnosis == Lower(Get(ai_analysis.diagnosis, <<>>))
             confidence == Get(ai_analysis.confidence, 0)
             health_score == Get(ai_analysis.health_score, 50)
             severity == Lower(Get(ai_analysis.severity, STR_UNKNOWN))
             raw_analysis == Get(ai_analysis.raw_analysis, <<>>)
             disease_category == le_classify_disease(diagnosis)
         IN  [original_analysis |-> diagnosis,
              confidence |-> confidence,
              health_score |-> health_score,
              severity |-> severity,
              conditions |-> evaluate_conditions(engine, diagnosis, confidence,
                                 health_score, severity, raw_analysis),
              suggestions |-> generate_suggestions(engine, diagnosis, confidence,
                                 health_score, severity, disease_category),
              urgent_actions |-> generate_urgent_actions(health_score, severity,
                                 disease_category),
              disease_category |-> disease_category,
              risk_assessment |-> assess_risk(diagnosis, health_score, severity),
              follow_up |-> determine_followup(confidence, health_score)]

(***************************************************************************)
(* LogicEngine: inputs and the specification SpecLogic.  One instance      *)
(* serves a first call, then a call on another record, then the first      *)
(* record again.                                                           *)
(***************************************************************************)
Absent(default) == [present |-> FALSE, value |-> default]
Present(v) == [present |-> TRUE, value |-> v]

\* The empty (falsy) record {}.
EmptyAnalysis ==
    [empty |-> TRUE, diagnosis |-> Absent(<<>>), confidence |-> Absent(0),
     health_score |-> Absent(0), severity |-> Absent(<<>>),
     raw_analysis |-> Absent(<<>>)]

ConfidenceVals == {0, 49, 50, 80}
HealthVals == {20, 21, 40, 41, 60, 80}

LogicInputs ==
    {EmptyAnalysis} \cup
    [empty : {FALSE},
     diagnosis : {Absent(<<>>)} \cup {Present(d) : d \in Diagnoses},
     confidence : {Absent(0)} \cup {Present(c) : c \in ConfidenceVals},
     health_score : {Absent(0)} \cup {Present(h) : h \in HealthVals},
     severity : {Absent(<<>>)} \cup {Present(v) : v \in SeverityTexts},
     raw_analysis : {Absent(<<>>)} \cup {Present(r) : r \in RawTexts}]

\* The records of the intervening call.
OtherInputs ==
    {EmptyAnalysis,
     [empty |-> FALSE, diagnosis |-> Present(STR_HEALTHY),
      confidence |-> Present(80), health_score |-> Present(80),
      severity |-> Absent(<<>>), raw_analysis |-> Absent(<<>>)],
     [empty |-> FALSE, diagnosis |-> Present(STR_DROUGHT),
      confidence |-> Present(0), health_score |-> Present(20),
      severity |-> Present(STR_SEVERE), raw_analysis |-> Absent(<<>>)]}

InitLogic ==
    /\ le_in \in LogicInputs
    /\ le_out = None
    /\ le_prev = None
    /\ le_engine = EngineInit
    /\ le_calls = 0
    /\ det_in = None /\ det_out = None /\ det_scores = NoScores
    /\ sev_in = None /\ sev_out = None
    /\ g_req = None /\ g_pc = "off" /\ g_model = 0 /\ g_phase = "none"
    /\ g_step1 = None /\ g_step2 = None /\ g_last_error = None
    /\ g_calls = <<>> /\ g_ret = None /\ rt_response = None
    /\ pl_in = None /\ pl_out = None
    /\ pj_in = None /\ pj_out = None
    /\ ca_db = None /\ ca_in = None /\ ca_out = None /\ ca_calls = 0 /\ det_db = None

\* The first process_analysis(le_in) of the instance.
ProcessAnalysis ==
    /\ le_calls = 0
    /\ le_out' = process_analysis(le_engine, le_in)
    /\ le_calls' = 1
    /\ UNCHANGED <<le_in, le_prev, le_engine, detVars, sevVars, gVars, caVars, pjVars, plVars>>

\* A call on another record; the first call's input and output are kept.
ProcessOther ==
    /\ le_calls = 1
    /\ \E o \in OtherInputs :
          /\ le_in' = o
          /\ le_out' = process_analysis(le_engine, o)
    /\ le_prev' = [in |-> le_in, out |-> le_out]
    /\ le_calls' = 2
    /\ UNCHANGED <<le_engine, detVars, sevVars, gVars, caVars, pjVars, plVars>>

\* The first record again, on the same instance.
ProcessAgain ==
    /\ le_calls = 2
    /\ le_in' = le_prev.in
    /\ le_out' = process_analysis(le_engine, le_prev.in)
    /\ le_calls' = 3
    /\ UNCHANGED <<le_prev, le_engine, detVars, sevVars, gVars, caVars, pjVars, plVars>>

NextLogic == ProcessAnalysis \/ ProcessOther \/ ProcessAgain

SpecLogic == InitLogic /\ [][NextLogic]_vars

\* --- checks on the LogicEngine ------------------------------------------

RiskLevels == {"LOW", "MEDIUM", "HIGH", "CRITICAL"}

\* The bucket the claim gives a score.
BucketOf(score) ==
    CASE score < 25 -> "LOW"
      [] score >= 25 /\ score <= 49 -> "MEDIUM"
      [] score >= 50 /\ score <= 74 -> "HIGH"
      [] score >= 75 -> "CRITICAL"

\* C4 as stated: every risk assessment process_analysis returns, for any
\* input record, has risk_score in [0,100] and the risk_level of its bucket.
C4_Original ==
    le_calls > 0 =>
        /\ le_out.risk_assessment.risk_score \in 0..100
        /\ le_out.risk_assessment.risk_level \in RiskLevels
        /\ le_out.risk_assessment.risk_level
              = BucketOf(le_out.risk_assessment.risk_score)

\* C4 amended: for every non-empty input record the risk assessment has
\* risk_score in [0,100] and the risk_level LOW/MEDIUM/HIGH/CRITICAL of its
\* bucket; for an empty record the error response carries risk_score 50
\* with risk_level UNKNOWN.
C4_RiskBucket ==
    le_calls > 0 =>
        IF le_in.empty
        THEN /\ le_out.risk_assessment.risk_score = 50
             /\ le_out.risk_assessment.risk_level = "UNKNOWN"
        ELSE /\ le_out.risk_assessment.risk_score \in 0..100
             /\ le_out.risk_assessment.risk_level \in RiskLevels
             /\ le_out.risk_assessment.risk_level
                   = BucketOf(le_out.risk_assessment.risk_score)

\* C4 witness: a non-empty record whose score is exactly 75, level CRITICAL.
C4_Witness ==
    /\ le_calls > 0
    /\ ~le_in.empty
    /\ le_out.risk_assessment.risk_score = 75
    /\ le_out.risk_assessment.risk_level = "CRITICAL"

\* The set of the tags of a condition list.
TagSet(conditions) == {conditions[i] : i \in 1..Len(conditions)}

MODEL_NAMES == <<"gemini-2.5-flash", "gemini-2.0-flash", "gemini-2.0-flash-lite">>

\* The keys merged from step 2 and backfilled with defaults.
ENRICH_KEYS ==
    {"description", "causes", "immediate_actions", "treatment", "prevention",
     "watering_advice", "recovery_timeline", "risk_if_untreated"}

\* 'none'
STR_NONE == <<"n", "o", "n", "e">>
\* ''
STR_EMPTY == <<>>
\* 'Early Blight'
NAME_EARLY_BLIGHT == <<"E", "a", "r", "l", "y", " ", "B", "l", "i", "g", "h", "t">>
\* 'Healthy'
NAME_HEALTHY == <<"H", "e", "a", "l", "t", "h", "y">>
\* 'Unknown'
NAME_UNKNOWN == <<"U", "n", "k", "n", "o", "w", "n">>

\* bool(value) of a field value of kind absent / empty / value / dict
Truthy(kind) == kind \in {"value", "dict"}

\* A falsy parsed value (None or {}).
Falsy == [json |-> "falsy"]

\* '429' in error_str or 'RESOURCE_EXHAUSTED' in error_str
is_rate_limit(error) ==
    "429" \in error.markers \/ "RESOURCE_EXHAUSTED" \in error.markers

\* _parse_json(response.text): the parsed value, Falsy when the text cannot
\* be parsed or parses to an empty object.
parse_json(text) ==
    IF text.form = "garbage" THEN Falsy
    ELSE IF text.value.json = "empty_dict" THEN Falsy
    ELSE text.value

\* bool(step_result): a non-empty object, a non-empty list, a non-zero
\* number.
IsTruthy(value) == value.json \in {"dict", "list", "number"}

\* Lines 222-227: the arguments of the success log call are evaluated
\* inside the try; step1_result.get raises on a value that is no object,
\* and .get('plant_info', {}).get raises when plant_info is no object.
LogRaises(value) == value.json # "dict" \/ value.typed = "plant_info"

\* The fields of the step 1 result as IDENTIFY reported them.
FromIdentify(payload) ==
    [k \in ENRICH_KEYS |-> [kind |-> payload.fields[k], src |-> "identify"]]

\* Lines 308-312: every key present in step 2 with a truthy value replaces
\* the step 1 value.
merge_step2(fields, step2_result) ==
    [k \in ENRICH_KEYS |->
        IF step2_result.json = "dict" /\ Truthy(step2_result.fields[k])
        THEN [kind |-> step2_result.fields[k], src |-> "enrich"]
        ELSE fields[k]]

\* Mutant of fill_defaults: setdefault semantics, a key that is present but
\* empty is left alone.
fill_defaults_SetDefault(fields) ==
    [k \in ENRICH_KEYS |->
        IF fields[k].kind = "absent"
        THEN [kind |-> "value", src |-> "default"]
        ELSE fields[k]]

\* _fill_defaults: 'if not result.get(key)' for each of the eight keys.
fill_defaults(fields) ==
    [k \in ENRICH_KEYS |->
        IF ~Truthy(fields[k].kind)
        THEN [kind |-> "value", src |-> "default"]
        ELSE fields[k]]

\* _fill_healthy_defaults: result.setdefault(key, ...); the default of
\* 'causes' is the empty list.
fill_healthy_defaults(fields) ==
    [k \in ENRICH_KEYS |->
        IF fields[k].kind = "absent"
        THEN [kind |-> IF k = "causes" THEN "empty" ELSE "value",
              src |-> "healthy_default"]
        ELSE fields[k]]

\* isinstance(conf, (int, float)) for the value of a confidence key; a
\* value that is no number (a string, null) carries the mark 'numeric'.
IsNumber(confidence) == "numeric" \notin DOMAIN confidence

\* _validate_result, lines 495-500; a confidence is kept in hundredths
\* (0.85 is 85, 85 is 8500).  A value that is no number is left as it is:
\* the result then has numeric FALSE, and value stands for nothing.
normalize_confidence(confidence) ==
    LET conf == Get(confidence, 5000)
        scaled == IF conf <= 100 THEN conf * 100 ELSE conf
    IN  IF IsNumber(confidence)
        THEN [numeric |-> TRUE, value |-> Min(10000, Max(0, scaled))]
        ELSE [numeric |-> FALSE, value |-> 0]

\* _validate_result: absent keys are set to empty values, a dict
\* description becomes its JSON text, the confidence is normalised.
validate_result(result) ==
    [is_healthy |-> IF result.is_healthy = "absent" THEN "false"
                    ELSE result.is_healthy,
     disease_name |-> Get(result.disease_name, NAME_UNKNOWN),
     confidence |-> normalize_confidence(result.confidence),
     fields |-> [k \in ENRICH_KEYS |->
                   IF result.fields[k].kind = "absent"
                   THEN [kind |-> "empty", src |-> "validate"]
                   ELSE IF k = "description" /\ result.fields[k].kind = "dict"
                   THEN [kind |-> "value", src |-> result.fields[k].src]
                   ELSE result.fields[k]]]

\* Line 253
DiseaseNameOf(payload) == Get(payload.disease_name, NAME_UNKNOWN)

\* Line 255
IsHealthyOf(payload) ==
    \/ payload.is_healthy = "true"
    \/ Lower(DiseaseNameOf(payload)) \in {STR_HEALTHY, STR_NONE, STR_EMPTY}

\* Line 255: 'or' evaluates disease_name.lower() only when is_healthy is
\* falsy; it raises when disease_name is null.
LowerRaises(payload) ==
    payload.typed = "disease_name" /\ payload.is_healthy # "true"

\* Mutant of NeedsEnrich: only a healthy plant skips step 2.
NeedsEnrich_HealthyOnly(payload) == ~IsHealthyOf(payload)

\* Line 257: whether step 2 runs.
NeedsEnrich(payload) ==
    /\ ~IsHealthyOf(payload)
    /\ Lower(DiseaseNameOf(payload))
          \notin {STR_HEALTHY, STR_UNKNOWN, STR_NONE, STR_EMPTY}

\* Lines 252-255 raise AttributeError when the value is no object, when
\* its plant_info is no object, or when disease_name.lower() is evaluated
\* on null.
Step2PreludeRaises(payload) == LogRaises(payload) \/ LowerRaises(payload)

\* The step 1 result as a record of the fields the model follows.
ResultOf(payload, fields) ==
    [is_healthy |-> payload.is_healthy,
     disease_name |-> payload.disease_name,
     confidence |-> payload.confidence,
     fields |-> fields]

\* The messages analyze_image returns; markers are the marker substrings
\* the message contains.
Message(text, markers) == [text |-> text, markers |-> markers]
MSG_NOT_CONFIGURED ==
    Message("Gemini AI not configured. Set GEMINI_API_KEY env variable.", {})
MSG_CANNOT_READ == Message("Cannot read image file", {})
MSG_SUCCESS == Message("Analysis completed successfully", {})
\* Mutant of MsgIdentifyFailed: the message drops the last error.
MsgIdentifyFailed_NoError(last_error) ==
    Message("Image analysis failed.", {})
MsgIdentifyFailed(last_error) ==
    Message("Image analysis failed. Last error: " \o last_error.text,
            last_error.markers)
MsgUnexpected(error) ==
    Message("AI analysis error: " \o error.text, error.markers)

\* last_error values
ERR_EMPTY_RESPONSE == Message("Empty response", {})
\* Mutant of ERR_PARSE_STEP1: a parse failure is recorded as an empty reply.
ERR_PARSE_STEP1_AsEmpty == Message("Empty response", {})
ERR_PARSE_STEP1 == Message("Failed to parse step 1 response", {})
\* str(e) of the AttributeError raised on an ill-typed step 1 value.
ERR_ATTRIBUTE == Message("object has no attribute", {})
\* str(e) of the TypeError raised by 'key in step2_result' on a number.
ERR_TYPE == Message("argument of type 'int' is not iterable", {})
\* The error PIL raises on bytes that are no image.
ERR_PIL == Message("cannot identify image file", {})

\* Lines 307-323 when step 2 ran: merge or backfill, then validate.
FinishEnriched(payload, step2_result) ==
    LET fields == FromIdentify(payload)
        merged == IF IsTruthy(step2_result)
                  THEN merge_step2(fields, step2_result)
                  ELSE fill_defaults(fields)
    IN  IF step2_result.json = "number"
        THEN [result |-> None, message |-> MsgUnexpected(ERR_TYPE)]
        ELSE [result |-> validate_result(ResultOf(payload, merged)),
              message |-> MSG_SUCCESS]

\* Lines 316-323 when step 2 is skipped.
FinishSkipped(payload) ==
    [result |-> validate_result(
                    ResultOf(payload, fill_healthy_defaults(FromIdentify(payload)))),
     message |-> MSG_SUCCESS]

\* A returned failure: (None, message).
Failure(message) == [result |-> None, message |-> message]

(***************************************************************************)
(* The replies of the external service and the requests.                   *)
(***************************************************************************)

\* str(e) of the errors the service call raises, by the markers they hold.
ERR_GENERIC == Message("503 UNAVAILABLE", {})
ERR_QUOTA ==
    Message("429 RESOURCE_EXHAUSTED. You exceeded your current quota",
            {"429", "RESOURCE_EXHAUSTED", "quota"})
ERR_EXHAUSTED == Message("RESOURCE_EXHAUSTED", {"RESOURCE_EXHAUSTED"})
ERR_AUTH == Message("400 INVALID_ARGUMENT. API_KEY_INVALID", {"API_KEY_INVALID"})
ServiceErrors == {ERR_GENERIC, ERR_QUOTA, ERR_EXHAUSTED, ERR_AUTH}

\* A JSON null where a name is expected.
JSON_NULL == <<"null">>

AllAbsent == [k \in ENRICH_KEYS |-> "absent"]
SomeFields ==
    [k \in ENRICH_KEYS |->
        IF k = "description" THEN "value"
        ELSE IF k = "causes" THEN "empty" ELSE "absent"]

\* A parsed JSON object of step 1.
Identified(name, is_healthy, confidence, fields, typed) ==
    [json |-> "dict", typed |-> typed, is_healthy |-> is_healthy,
     disease_name |-> name, confidence |-> confidence, fields |-> fields]

NoName == Absent(NAME_UNKNOWN)
NoConfidence == Absent(0)
\* A confidence that is no number, such as "85%" or null.
NotANumber == [present |-> TRUE, value |-> 0, numeric |-> FALSE]

IdentifyValues ==
    {Identified(Present(NAME_EARLY_BLIGHT), "false", Present(85), AllAbsent, "ok"),
     Identified(Present(NAME_EARLY_BLIGHT), "absent", Present(8500), SomeFields, "ok"),
     Identified(Present(NAME_EARLY_BLIGHT), "true", NotANumber, AllAbsent, "ok"),
     Identified(Present(NAME_HEALTHY), "true", Present(15000), AllAbsent, "ok"),
     Identified(Present(NAME_HEALTHY), "false", Present(1), SomeFields, "ok"),
     Identified(Present(NAME_UNKNOWN), "false", Present(100), AllAbsent, "ok"),
     Identified(NoName, "absent", NoConfidence, AllAbsent, "ok"),
     Identified(Present(NAME_EARLY_BLIGHT), "false", Present(85), AllAbsent, "plant_info"),
     Identified(Present(JSON_NULL), "true", Present(0 - 50), AllAbsent, "disease_name"),
     Identified(Present(JSON_NULL), "false", Present(85), AllAbsent, "disease_name"),
     [json |-> "list"]}

\* A parsed JSON object of step 2.
Enriched(fields) == [json |-> "dict", fields |-> fields]

EnrichValues ==
    {Enriched([k \in ENRICH_KEYS |-> IF k = "description" THEN "dict" ELSE "value"]),
     Enriched([k \in ENRICH_KEYS |->
                 IF k = "description" THEN "value"
                 ELSE IF k = "treatment" THEN "empty" ELSE "absent"]),
     Enriched(AllAbsent),
     [json |-> "list"],
     [json |-> "number"]}

Raise(error) == [kind |-> "raise", error |-> error]
EmptyReply == [kind |-> "empty"]
Text(form, value) == [kind |-> "text", text |-> [form |-> form, value |-> value]]

\* Replies that yield no value: an error, no text, a text that is no JSON,
\* the text '{}'.
FailedReplies ==
    {Raise(e) : e \in ServiceErrors}
        \cup {EmptyReply, Text("garbage", Falsy), Text("json", [json |-> "empty_dict"])}

IdentifyReplies == FailedReplies \cup {Text("json", v) : v \in IdentifyValues}
EnrichReplies == FailedReplies \cup {Text("json", v) : v \in EnrichValues}

\* A request to /analyze, or a direct call of analyze_image.
Request(entry, kind, available, image, mime_supported) ==
    [entry |-> entry, kind |-> kind, available |-> available,
     image |-> image, mime_supported |-> mime_supported]

Requests ==
    {Request("route", k, a, "ok", TRUE) :
        k \in {"nofile", "badupload", "badimage"}, a \in BOOLEAN}
    \cup {Request("route", "ok", a, "ok", m) : a \in BOOLEAN, m \in BOOLEAN}
    \cup {Request("direct", "ok", a, i, TRUE) :
            a \in BOOLEAN, i \in {"ok", "unreadable", "corrupt"}}

\* The class of a reply, as recorded in the call history.
OutcomeOf(stage, reply) ==
    IF reply.kind = "raise"
    THEN IF is_rate_limit(reply.error) THEN "ratelimit"
         ELSE IF "API_KEY_INVALID" \in reply.error.markers THEN "auth"
         ELSE "error"
    ELSE IF reply.kind = "empty" THEN "empty"
    ELSE IF ~IsTruthy(parse_json(reply.text)) THEN "noparse"
    ELSE IF stage = "identify" /\ LogRaises(parse_json(reply.text)) THEN "illtyped"
    ELSE "ok"

CallRecord(stage, model, grounded, reply) ==
    [stage |-> stage, model |-> model, grounded |-> grounded,
     outcome |-> OutcomeOf(stage, reply)]

(***************************************************************************)
(* analyze_image, one step per external call.                              *)
(***************************************************************************)

InitGemini ==
    /\ g_req \in Requests
    /\ g_pc = "start"
    /\ g_model = 0 /\ g_phase = "none"
    /\ g_step1 = None /\ g_step2 = None /\ g_last_error = None
    /\ g_calls = <<>> /\ g_ret = None /\ rt_response = None
    /\ pl_in = None /\ pl_out = None
    /\ pj_in = None /\ pj_out = None
    /\ ca_db = None /\ ca_in = None /\ ca_out = None /\ ca_calls = 0 /\ det_db = None
    /\ det_in = None /\ det_out = None /\ det_scores = NoScores
    /\ sev_in = None /\ sev_out = None
    /\ le_in = None /\ le_out = None /\ le_prev = None
    /\ le_engine = None /\ le_calls = 0

\* Mutant of HasNextModel: the loop gives up after the model it is on.
HasNextModel_Abort(model) == FALSE

\* 'for model_name in self._model_names': 'continue' reaches another model.
HasNextModel(model) == model < Len(MODEL_NAMES)

\* analyze_image returns: nothing of the loops is read afterwards.
Return(ret, step1, step2) ==
    /\ g_ret' = ret
    /\ g_step1' = step1
    /\ g_step2' = step2
    /\ g_pc' = "returned"
    /\ g_model' = 0
    /\ g_phase' = "none"
    /\ g_last_error' = None

\* Lines 252-323 up to the first call of step 2, for a truthy step1_result.
AfterIdentify(step1) ==
    IF Step2PreludeRaises(step1)
    THEN Return(Failure(MsgUnexpected(ERR_ATTRIBUTE)), step1, None)
    ELSE IF NeedsEnrich(step1)
    THEN /\ g_pc' = "enrich"
         /\ g_model' = 1
         /\ g_phase' = "grounded"
         /\ g_step1' = step1
         /\ g_last_error' = None
         /\ UNCHANGED <<g_step2, g_ret>>
    ELSE Return(FinishSkipped(step1), step1, None)

\* The route's validations (lines 26-48): a request without a file, with a
\* bad upload or with a bad image is answered 400.
RouteReject ==
    /\ g_pc = "start"
    /\ g_req.entry = "route"
    /\ g_req.kind # "ok"
    /\ rt_response' = [status |-> 400, success |-> FALSE,
                       analysis_type |-> "none", pipeline |-> "none"]
    /\ g_pc' = "responded"
    /\ UNCHANGED <<g_req, g_model, g_phase, g_step1, g_step2, g_last_error,
                   g_calls, g_ret>>

\* analyze_image, lines 172-205: the route calls it only when
\* gemini.is_available, on the bytes of the image it validated.
AnalyzeStart ==
    /\ g_pc = "start"
    /\ \/ g_req.entry = "direct"
       \/ g_req.entry = "route" /\ g_req.kind = "ok" /\ g_req.available
    /\ IF ~g_req.available
       THEN Return(Failure(MSG_NOT_CONFIGURED), None, None)
       ELSE IF g_req.image = "unreadable"
       THEN Return(Failure(MSG_CANNOT_READ), None, None)
       ELSE IF g_req.image = "corrupt"
       THEN Return(Failure(MsgUnexpected(ERR_PIL)), None, None)
       ELSE /\ g_pc' = "identify"
            /\ g_model' = 1
            /\ UNCHANGED <<g_phase, g_step1, g_step2, g_last_error, g_ret>>
    /\ UNCHANGED <<g_req, g_calls, rt_response>>

\* One pass of the step 1 loop (lines 207-246) on model g_model.
IdentifyCall ==
    /\ g_pc = "identify"
    /\ \E reply \in IdentifyReplies :
        LET step1 == IF reply.kind = "text" THEN parse_json(reply.text)
                     ELSE g_step1
            accepted == /\ reply.kind = "text"
                        /\ IsTruthy(step1)
                        /\ ~LogRaises(step1)
            last_error ==
                IF reply.kind = "raise" THEN reply.error
                ELSE IF reply.kind = "empty" THEN ERR_EMPTY_RESPONSE
                ELSE IF ~IsTruthy(step1) THEN ERR_PARSE_STEP1
                ELSE IF LogRaises(step1) THEN ERR_ATTRIBUTE
                ELSE g_last_error
        IN  /\ g_calls' = Append(g_calls,
                             CallRecord("identify", g_model, FALSE, reply))
            /\ IF accepted
               THEN AfterIdentify(step1)
               ELSE IF HasNextModel(g_model)
               THEN /\ g_model' = g_model + 1
                    /\ g_step1' = step1
                    /\ g_last_error' = last_error
                    /\ UNCHANGED <<g_pc, g_phase, g_step2, g_ret>>
               ELSE IF step1 = None \/ ~IsTruthy(step1)
               THEN Return(Failure(MsgIdentifyFailed(last_error)), step1, None)
               ELSE AfterIdentify(step1)
    /\ UNCHANGED <<g_req, rt_response>>

\* The step 2 loop moves to the next model, or ends without a value.
EnrichNext ==
    IF HasNextModel(g_model)
    THEN /\ g_model' = g_model + 1
         /\ g_phase' = "grounded"
         /\ UNCHANGED <<g_pc, g_step1, g_step2, g_last_error, g_ret>>
    ELSE Return(FinishEnriched(g_step1, Falsy), g_step1, Falsy)

\* Lines 265-281: the grounded call of step 2 on model g_model.
EnrichGrounded ==
    /\ g_pc = "enrich"
    /\ g_phase = "grounded"
    /\ \E reply \in EnrichReplies :
        /\ g_calls' = Append(g_calls, CallRecord("enrich", g_model, TRUE, reply))
        /\ IF reply.kind = "raise"
           THEN EnrichNext
           ELSE IF reply.kind = "text" /\ IsTruthy(parse_json(reply.text))
           THEN Return(FinishEnriched(g_step1, parse_json(reply.text)),
                       g_step1, parse_json(reply.text))
           ELSE /\ g_phase' = "fallback"
                /\ UNCHANGED <<g_pc, g_model, g_step1, g_step2, g_last_error,
                               g_ret>>
    /\ UNCHANGED <<g_req, rt_response>>

\* Lines 283-296: the call without grounding, made when the grounded call
\* returned without a value.
EnrichFallback ==
    /\ g_pc = "enrich"
    /\ g_phase = "fallback"
    /\ \E reply \in EnrichReplies :
        /\ g_calls' = Append(g_calls, CallRecord("enrich", g_model, FALSE, reply))
        /\ IF reply.kind = "text" /\ IsTruthy(parse_json(reply.text))
           THEN Return(FinishEnriched(g_step1, parse_json(reply.text)),
                       g_step1, parse_json(reply.text))
           ELSE EnrichNext
    /\ UNCHANGED <<g_req, rt_response>>

(***************************************************************************)
(* The /analyze route after the orchestrator.                              *)
(***************************************************************************)

\* Line 113: '429' in ai_message or 'Rate limit' in ai_message
\*           or 'quota' in ai_message.lower()
route_rate_limited(ai_message) ==
    \/ "429" \in ai_message.markers
    \/ "Rate limit" \in ai_message.markers
    \/ "quota" \in ai_message.markers

\* PlantAnalyzer.analyze_plant_image on the uploaded file: ImageProcessor
\* .validate_image refuses a content type outside SUPPORTED_MIMETYPES, which
\* the route's own validations do not look at.
rule_based_success(req) == req.mime_supported

\* Lines 64-110: the orchestrator's result is served.  Line 80 divides the
\* confidence by 100.0: on a confidence that is no number it raises
\* TypeError, which the except at line 142 answers with 500.
RouteRespondAI ==
    /\ g_pc = "returned"
    /\ g_req.entry = "route"
    /\ g_ret.result # None
    /\ rt_response' =
          IF g_ret.result.confidence.numeric
          THEN [status |-> 200, success |-> TRUE,
                analysis_type |-> "ai", pipeline |-> "ai"]
          ELSE [status |-> 500, success |-> FALSE,
                analysis_type |-> "none", pipeline |-> "ai"]
    /\ g_pc' = "responded"
    /\ UNCHANGED <<g_req, g_model, g_phase, g_step1, g_step2, g_last_error,
                   g_calls, g_ret>>

\* Lines 111-118: a failure message with a rate limit marker is answered
\* 429.
RouteRateLimited ==
    /\ g_pc = "returned"
    /\ g_req.entry = "route"
    /\ g_ret.result = None
    /\ route_rate_limited(g_ret.message)
    /\ rt_response' = [status |-> 429, success |-> FALSE,
                       analysis_type |-> "none", pipeline |-> "none"]
    /\ g_pc' = "responded"
    /\ UNCHANGED <<g_req, g_model, g_phase, g_step1, g_step2, g_last_error,
                   g_calls, g_ret>>

\* Mutant of rule_based_response: a failed analysis is served as a success.
rule_based_response_IgnoreFailure(req) ==
    [status |-> 200, success |-> TRUE,
     analysis_type |-> "rule_based", pipeline |-> "rule_based"]

\* Lines 121-140: the rule-based analysis and the care plan.
rule_based_response(req) ==
    IF rule_based_success(req)
    THEN [status |-> 200, success |-> TRUE,
          analysis_type |-> "rule_based", pipeline |-> "rule_based"]
    ELSE [status |-> 400, success |-> FALSE,
          analysis_type |-> "none", pipeline |-> "rule_based"]

\* Lines 59 and 119-140: the fallback, when the analyzer is not available
\* or its failure message has no rate limit marker.
RouteRuleBased ==
    /\ g_req.entry = "route"
    /\ \/ g_pc = "start" /\ g_req.kind = "ok" /\ ~g_req.available
       \/ /\ g_pc = "returned"
          /\ g_ret.result = None
          /\ ~route_rate_limited(g_ret.message)
    /\ rt_response' = rule_based_response(g_req)
    /\ g_pc' = "responded"
    /\ UNCHANGED <<g_req, g_model, g_phase, g_step1, g_step2, g_last_error,
                   g_calls, g_ret>>

NextGemini ==
    \/ RouteReject
    \/ AnalyzeStart
    \/ IdentifyCall
    \/ EnrichGrounded
    \/ EnrichFallback
    \/ RouteRespondAI
    \/ RouteRateLimited
    \/ RouteRuleBased

SpecGemini ==
    /\ InitGemini
    /\ [][NextGemini /\ UNCHANGED <<detVars, sevVars, leVars, caVars, pjVars, plVars>>]_vars

(***************************************************************************)
(* Properties of the orchestrator and the route.                           *)
(***************************************************************************)

Returned == g_pc \in {"returned", "responded"} /\ g_ret # None
CallsOf(stage) == {i \in 1..Len(g_calls) : g_calls[i].stage = stage}
Succeeded == Returned /\ g_ret.result # None
Complete(result) == \A k \in ENRICH_KEYS : Truthy(result.fields[k].kind)

\* C6: when step 1 found a disease and step 2 was tried and no call of it,
\* on any model, grounded or not, gave a value (error, empty reply, reply
\* that does not parse), analyze_image returns a result in which the eight
\* enrichment fields are all non-empty.
C6_EnrichFailedDefaults ==
    (/\ Returned
     /\ CallsOf("enrich") # {}
     /\ \A i \in CallsOf("enrich") : g_calls[i].outcome # "ok")
        => /\ g_ret.result # None
           /\ g_ret.message = MSG_SUCCESS
           /\ Complete(g_ret.result)

\* Step 2 failed on every model in the three ways, and a default replaced
\* a field that step 1 had left empty.
C6_Witness ==
    /\ Returned
    /\ \E i \in CallsOf("enrich") : g_calls[i].outcome = "ratelimit"
    /\ \E i \in CallsOf("enrich") : g_calls[i].outcome = "empty"
    /\ \E i \in CallsOf("enrich") : g_calls[i].outcome = "noparse"
    /\ \A i \in CallsOf("enrich") : g_calls[i].outcome # "ok"
    /\ g_ret.result # None
    /\ g_ret.result.fields["causes"].src = "default"
    /\ g_ret.result.fields["description"].src = "identify"
    /\ Complete(g_ret.result)

\* C7: every result analyze_image returns has the eight enrichment fields
\* non-empty, whether step 2 gave all fields, some fields, failed or was
\* skipped.
C7_AlwaysComplete == Succeeded => Complete(g_ret.result)

\* C8, as stated: whenever the orchestrator yields no result for a valid
\* request, the response is the rule-based one.
C8_Original ==
    (/\ g_pc = "responded"
     /\ g_req.entry = "route"
     /\ g_req.kind = "ok"
     /\ (g_ret = None \/ g_ret.result = None))
        => rt_response.analysis_type = "rule_based"

\* C8: when the orchestrator yields no result for a valid request, the
\* route answers 429 without running the rule-based pipeline if the failure
\* message holds a rate limit marker; otherwise it runs the rule-based
\* pipeline and answers with analysis_type 'rule_based' when that analysis
\* succeeds, 400 when it does not.
C8_FallbackUnlessRateLimited ==
    (/\ g_pc = "responded"
     /\ g_req.entry = "route"
     /\ g_req.kind = "ok"
     /\ (g_ret = None \/ g_ret.result = None))
        => IF g_ret # None /\ route_rate_limited(g_ret.message)
           THEN /\ rt_response.status = 429
                /\ rt_response.pipeline = "none"
           ELSE /\ rt_response.pipeline = "rule_based"
                /\ g_req.mime_supported
                     => /\ rt_response.status = 200
                        /\ rt_response.analysis_type = "rule_based"
                /\ ~g_req.mime_supported
                     => /\ rt_response.status = 400
                        /\ rt_response.analysis_type = "none"

\* All three models failed in step 1 without a rate limit marker in the
\* last error, and the rule-based response was served.
C8_Witness ==
    /\ g_pc = "responded"
    /\ g_req.entry = "route"
    /\ g_ret # None
    /\ g_ret.result = None
    /\ Cardinality(CallsOf("identify")) = Len(MODEL_NAMES)
    /\ g_calls[1].outcome = "ratelimit"
    /\ rt_response.analysis_type = "rule_based"
    /\ rt_response.status = 200

\* The message that carries an error text and the markers in it.
CarriesError(error) ==
    [text |-> "Image analysis failed. Last error: " \o error.text,
     markers |-> error.markers]

\* The failure messages of step 1 for the class of the last call.
IdentifyFailureMessages(outcome) ==
    CASE outcome = "ratelimit" -> {CarriesError(ERR_QUOTA), CarriesError(ERR_EXHAUSTED)}
      [] outcome = "auth" -> {CarriesError(ERR_AUTH)}
      [] outcome = "error" -> {CarriesError(ERR_GENERIC)}
      [] outcome = "empty" -> {CarriesError(ERR_EMPTY_RESPONSE)}
      [] outcome = "noparse" -> {CarriesError(ERR_PARSE_STEP1)}
      [] OTHER -> {}

FailedOutcomes == {"ratelimit", "auth", "error", "empty", "noparse"}

\* C9: analyze_image always returns a pair.  The result is None with the
\* 'not configured' message and no external call when the analyzer is
\* unavailable, None with 'Cannot read image file' when the image cannot be
\* read, None with the last recorded error in the message when every step 1
\* call failed; it is not None exactly when some step 1 call gave an
\* accepted value and no later step raised.
C9_AlwaysReturns ==
    g_pc = "returned" =>
        /\ g_ret # None
        /\ ~g_req.available
             => /\ g_ret = Failure(MSG_NOT_CONFIGURED)
                /\ g_calls = <<>>
        /\ (g_req.available /\ g_req.image = "unreadable")
             => g_ret = Failure(MSG_CANNOT_READ)
        /\ (/\ CallsOf("identify") # {}
            /\ \A i \in CallsOf("identify") : g_calls[i].outcome \in FailedOutcomes)
             => /\ g_ret.result = None
                /\ g_ret.message \in
                     IdentifyFailureMessages(g_calls[Len(g_calls)].outcome)
        /\ g_ret.result # None
             <=> /\ \E i \in CallsOf("identify") : g_calls[i].outcome = "ok"
                 /\ ~LowerRaises(g_step1)
                 /\ (g_step2 = None \/ g_step2.json # "number")
        /\ g_ret.result = None => g_ret.message # MSG_SUCCESS

\* Every model failed in step 1, the last one by a rate limit, and the
\* message carries that error.
C9_Witness ==
    /\ g_pc = "returned"
    /\ Len(g_calls) = Len(MODEL_NAMES)
    /\ g_calls[1].outcome = "noparse"
    /\ g_calls[2].outcome = "empty"
    /\ g_calls[3].outcome = "ratelimit"
    /\ g_ret.result = None
    /\ g_ret.message = CarriesError(ERR_QUOTA)

\* C10: the step 1 calls are the first calls of the request, the i-th of
\* them on the i-th model; no call follows an accepted reply within step 1;
\* and step 1 ends before the last model only on an accepted reply, so a
\* rate limit on a model that has a successor is followed by a call of the
\* successor.
C10_IdentifyOrder ==
    LET n == Cardinality(CallsOf("identify"))
    IN  /\ n <= Len(MODEL_NAMES)
        /\ CallsOf("identify") = 1..n
        /\ \A i \in 1..n : g_calls[i].model = i
        /\ \A i \in 1..n : i < n => g_calls[i].outcome # "ok"
        /\ \A i \in 1..n :
             (g_calls[i].outcome = "ratelimit" /\ i < Len(MODEL_NAMES))
                => \/ n > i
                   \/ g_pc = "identify" /\ g_model = i + 1

\* Two rate limits were followed by an accepted reply of the third model,
\* after which step 2 started.
C10_Witness ==
    /\ Len(g_calls) > Len(MODEL_NAMES)
    /\ g_calls[1].outcome = "ratelimit"
    /\ g_calls[2].outcome = "ratelimit"
    /\ g_calls[3].outcome = "ok"
    /\ g_calls[3].stage = "identify"
    /\ g_calls[4].stage = "enrich"

\* Some step 1 call gave an accepted value: g_step1 is that value.
IdentifyAccepted ==
    \E i \in CallsOf("identify") : g_calls[i].outcome = "ok"

\* is_healthy is true, or disease_name is, whatever its case, one of
\* 'healthy', 'unknown', 'none', ''.
JudgedHealthyOrUnknown(payload) ==
    \/ payload.is_healthy = "true"
    \/ Lower(Get(payload.disease_name, NAME_UNKNOWN))
          \in {STR_HEALTHY, STR_UNKNOWN, STR_NONE, STR_EMPTY}

C12_GroundedThenFallback ==
    \A i \in CallsOf("enrich") :
        /\ ((i - 1) \notin CallsOf("enrich")
               \/ g_calls[i - 1].model # g_calls[i].model)
              => g_calls[i].grounded
        /\ (g_calls[i].grounded /\ g_calls[i].outcome # "ok")
              => IF i < Len(g_calls)
                 THEN /\ ~g_calls[i + 1].grounded
                      /\ g_calls[i + 1].model = g_calls[i].model
                 ELSE /\ g_pc = "enrich"
                      /\ g_phase = "fallback"
                      /\ g_model = g_calls[i].model

\* C13: after a call that failed with an authentication error no further
\* call is made, to any model, in the request.
C13_AuthFatal ==
    \A i \in 1..Len(g_calls) :
        g_calls[i].outcome = "auth"
            => /\ i = Len(g_calls)
               /\ g_pc \in {"returned", "responded"}

\* Every call of the request was answered by a text that does not parse.
AllUnparseable ==
    /\ g_calls # <<>>
    /\ \A i \in 1..Len(g_calls) : g_calls[i].outcome = "noparse"

\* C14, as stated: replies that cannot be parsed never make the request
\* fail, in either step.
C14_Original == (Returned /\ AllUnparseable) => g_ret.result # None

\* C14: in step 2, when every reply is a text that does not parse, the
\* result is returned with every enrichment field that step 1 left empty
\* set to its default.  In step 1 an unparseable reply is a failure of its
\* model only, followed by a call of the next model; when the replies of
\* all models are unparseable analyze_image returns None with 'Image
\* analysis failed. Last error: Failed to parse step 1 response'.
C14_ParseSoftFailure ==
    /\ (/\ Returned
        /\ CallsOf("enrich") # {}
        /\ \A i \in CallsOf("enrich") : g_calls[i].outcome = "noparse")
          => /\ g_ret.result # None
             /\ Cardinality(CallsOf("enrich")) = 2 * Len(MODEL_NAMES)
             /\ \A k \in ENRICH_KEYS :
                  /\ g_ret.result.fields[k].kind = "value"
                  /\ g_ret.result.fields[k].src
                       = IF Truthy(g_step1.fields[k]) THEN "identify" ELSE "default"
    /\ \A i \in CallsOf("identify") :
          (g_calls[i].outcome = "noparse" /\ i < Len(MODEL_NAMES))
             => \/ Len(g_calls) > i /\ g_calls[i + 1].stage = "identify"
                \/ g_pc = "identify" /\ g_model = i + 1
    /\ (Returned /\ AllUnparseable /\ CallsOf("enrich") = {})
          => /\ g_ret.result = None
             /\ Len(g_calls) = Len(MODEL_NAMES)
             /\ g_ret.message.text
                  = "Image analysis failed. Last error: Failed to parse step 1 response"

\* Step 1 was accepted on the second model after an unparseable reply, all
\* six step 2 replies were unparseable, and the defaults were applied.
C14_Witness ==
    /\ Returned
    /\ g_calls # <<>>
    /\ g_calls[1].outcome = "noparse"
    /\ Cardinality(CallsOf("enrich")) = 2 * Len(MODEL_NAMES)
    /\ \A i \in CallsOf("enrich") : g_calls[i].outcome = "noparse"
    /\ g_ret.result # None
    /\ g_ret.result.fields["treatment"].src = "default"

\* C15: every returned result has a numeric confidence in [0,100]; a
\* confidence reported as a fraction in [0,1] is multiplied by 100, and a
\* confidence reported above 1 and up to 100 is returned unchanged.
C15_ConfidenceNormalized ==
    Succeeded =>
        LET reported == g_step1.confidence
            conf == g_ret.result.confidence
        IN  /\ conf.numeric
            /\ conf.value \in 0..10000
            /\ (reported.present /\ reported.value \in 0..100)
                 => conf.value = 100 * reported.value
            /\ (reported.present /\ reported.value \in 101..10000)
                 => conf.value = reported.value

(***************************************************************************)
(* LogicEngine: the specification SpecEngine, one process_analysis call on *)
(* records that walk the confidence and health bands, the severity labels  *)
(* and diagnosis texts holding keywords of one or several families.        *)
(***************************************************************************)

\* The diagnosis texts:
\*   'Powdery Mildew'
\*   'bacterial leaf spot'
\*   'fire blight'
\*   'crown gall'
\*   'crown gall mosaic virus'
\*   'mosaic virus yellowing'
\*   'leaf curl virus'
\*   'heat stress with pest'
\*   'sunburn'
\*   'insect damage'
\*   'pest free, healthy'
\*   'Healthy'
\*   'no disease'
\*   'unknown'
\*   ''
ClassifyDiagnoses ==
    {<<"P", "o", "w", "d", "e", "r", "y", " ", "M", "i", "l", "d", "e", "w">>,
     <<"b", "a", "c", "t", "e", "r", "i", "a", "l", " ", "l", "e", "a", "f", " ", "s", "p", "o", "t">>,
     <<"f", "i", "r", "e", " ", "b", "l", "i", "g", "h", "t">>,
     <<"c", "r", "o", "w", "n", " ", "g", "a", "l", "l">>,
     <<"c", "r", "o", "w", "n", " ", "g", "a", "l", "l", " ", "m", "o", "s", "a", "i", "c", " ", "v", "i", "r", "u", "s">>,
     <<"m", "o", "s", "a", "i", "c", " ", "v", "i", "r", "u", "s", " ", "y", "e", "l", "l", "o", "w", "i", "n", "g">>,
     <<"l", "e", "a", "f", " ", "c", "u", "r", "l", " ", "v", "i", "r", "u", "s">>,
     <<"h", "e", "a", "t", " ", "s", "t", "r", "e", "s", "s", " ", "w", "i", "t", "h", " ", "p", "e", "s", "t">>,
     <<"s", "u", "n", "b", "u", "r", "n">>,
     <<"i", "n", "s", "e", "c", "t", " ", "d", "a", "m", "a", "g", "e">>,
     <<"p", "e", "s", "t", " ", "f", "r", "e", "e", ",", " ", "h", "e", "a", "l", "t", "h", "y">>,
     <<"H", "e", "a", "l", "t", "h", "y">>,
     <<"n", "o", " ", "d", "i", "s", "e", "a", "s", "e">>,
     <<"u", "n", "k", "n", "o", "w", "n">>,
     <<>>}

\* 'crown gall'
DIAG_CROWN_GALL == <<"c", "r", "o", "w", "n", " ", "g", "a", "l", "l">>

BandConfidences == {0, 49, 50, 51, 79, 80, 100}
BandHealths == {0, 15, 19, 20, 21, 39, 40, 41, 59, 60, 61, 79, 80, 100}
BandSeverities ==
    {Absent(<<>>), Present(STR_SEVERE), Present(STR_MODERATE), Present(STR_MILD),
     Present(<<"S", "e", "v", "e", "r", "e">>)}

\* The diagnoses of the risk assessment: those of SpecLogic (viral, fungal,
\* both, neither) and the text 'ENVIRONMENTAL_STRESS'.
RiskDiagnoses == Diagnoses \cup {STR_ENVIRONMENTAL_STRESS_UPPER}
RiskHealths == {0, 20, 21, 40, 41, 100}

EngineInputs ==
    {EmptyAnalysis}
    \cup [empty : {FALSE},
          diagnosis : {Present(d) : d \in ClassifyDiagnoses},
          confidence : {Present(80)},
          health_score : {Absent(0)},
          severity : {Absent(<<>>)},
          raw_analysis : {Absent(<<>>)}]
    \cup [empty : {FALSE},
          diagnosis : {Absent(<<>>), Present(DIAG_CROWN_GALL)},
          confidence : {Absent(0)} \cup {Present(c) : c \in BandConfidences},
          health_score : {Absent(0)} \cup {Present(h) : h \in BandHealths},
          severity : BandSeverities,
          raw_analysis : {Absent(<<>>)}]
    \cup [empty : {FALSE},
          diagnosis : {Present(d) : d \in RiskDiagnoses},
          confidence : {Present(80)},
          health_score : {Absent(0)} \cup {Present(h) : h \in RiskHealths},
          severity : BandSeverities,
          raw_analysis : {Absent(<<>>)}]

InitEngine ==
    /\ le_in \in EngineInputs
    /\ le_out = None
    /\ le_prev = None
    /\ le_engine = EngineInit
    /\ le_calls = 0
    /\ det_in = None /\ det_out = None /\ det_scores = NoScores
    /\ sev_in = None /\ sev_out = None
    /\ g_req = None /\ g_pc = "off" /\ g_model = 0 /\ g_phase = "none"
    /\ g_step1 = None /\ g_step2 = None /\ g_last_error = None
    /\ g_calls = <<>> /\ g_ret = None /\ rt_response = None
    /\ pl_in = None /\ pl_out = None
    /\ pj_in = None /\ pj_out = None
    /\ ca_db = None /\ ca_in = None /\ ca_out = None /\ ca_calls = 0 /\ det_db = None

NextEngine == ProcessAnalysis

SpecEngine == InitEngine /\ [][NextEngine]_vars

Categories ==
    {"FUNGAL", "BACTERIAL", "VIRAL", "ENVIRONMENTAL", "PEST_DAMAGE", "HEALTHY",
     "UNKNOWN"}

\* A process_analysis call on a non-empty record has returned.
Processed == le_calls > 0 /\ ~le_in.empty

\* C16: the category is that of the first family, in the order fungal,
\* bacterial, viral, environmental, pest, healthy, whose keywords occur in
\* the lower-cased diagnosis, UNKNOWN when none does; it is always one of
\* the seven categories.
C16_FirstMatchWins ==
    Processed =>
        LET d == le_out.original_analysis
            cat == le_out.disease_category
            fungal == is_fungal_disease(d)
            bacterial == is_bacterial_disease(d)
            viral == is_viral_disease(d)
            env == is_environmental_stress(d)
            pest == Contains(d, STR_PEST) \/ Contains(d, STR_INSECT)
            healthy == Contains(d, STR_HEALTHY) \/ Contains(d, STR_NO_DISEASE)
        IN  /\ cat \in Categories
            /\ cat = "FUNGAL" <=> fungal
            /\ cat = "BACTERIAL" <=> (bacterial /\ ~fungal)
            /\ cat = "VIRAL" <=> (viral /\ ~fungal /\ ~bacterial)
            /\ cat = "ENVIRONMENTAL"
                 <=> (env /\ ~fungal /\ ~bacterial /\ ~viral)
            /\ cat = "PEST_DAMAGE"
                 <=> (pest /\ ~fungal /\ ~bacterial /\ ~viral /\ ~env)
            /\ cat = "HEALTHY"
                 <=> (healthy /\ ~fungal /\ ~bacterial /\ ~viral /\ ~env /\ ~pest)
            /\ cat = "UNKNOWN"
                 <=> ~(fungal \/ bacterial \/ viral \/ env \/ pest \/ healthy)

\* A diagnosis with keywords of the bacterial and of the fungal family was
\* classified FUNGAL.
C16_Witness ==
    /\ Processed
    /\ is_bacterial_disease(le_out.original_analysis)
    /\ is_fungal_disease(le_out.original_analysis)
    /\ le_out.disease_category = "FUNGAL"

\* C17: the six band tags are present exactly on their bands:
\* CRITICAL_PLANT_HEALTH iff health_score <= 20, POOR_PLANT_HEALTH iff
\* <= 40, FAIR_PLANT_HEALTH iff <= 60, GOOD_PLANT_HEALTH iff >= 80,
\* LOW_CONFIDENCE_DIAGNOSIS iff confidence < 50, HIGH_CONFIDENCE_DIAGNOSIS
\* iff confidence >= 80; so CRITICAL comes with POOR and FAIR.
C17_BandTags ==
    Processed =>
        LET tags == TagSet(le_out.conditions)
            h == le_out.health_score
            c == le_out.confidence
        IN  /\ "CRITICAL_PLANT_HEALTH" \in tags <=> h <= 20
            /\ "POOR_PLANT_HEALTH" \in tags <=> h <= 40
            /\ "FAIR_PLANT_HEALTH" \in tags <=> h <= 60
            /\ "GOOD_PLANT_HEALTH" \in tags <=> h >= 80
            /\ "LOW_CONFIDENCE_DIAGNOSIS" \in tags <=> c < 50
            /\ "HIGH_CONFIDENCE_DIAGNOSIS" \in tags <=> c >= 80
            /\ "CRITICAL_PLANT_HEALTH" \in tags
                 => {"POOR_PLANT_HEALTH", "FAIR_PLANT_HEALTH"} \subseteq tags

\* A record with health_score 20 and confidence 79 carries the three low
\* health tags and neither confidence tag.
C17_Witness ==
    /\ Processed
    /\ le_out.health_score = 20
    /\ le_out.confidence = 79
    /\ {"CRITICAL_PLANT_HEALTH", "POOR_PLANT_HEALTH", "FAIR_PLANT_HEALTH"}
          \subseteq TagSet(le_out.conditions)
    /\ "LOW_CONFIDENCE_DIAGNOSIS" \notin TagSet(le_out.conditions)
    /\ "HIGH_CONFIDENCE_DIAGNOSIS" \notin TagSet(le_out.conditions)

\* C18: a record with health_score <= 20 and severity 'severe' gets
\* CRITICAL_PLANT_HEALTH, SEVERE_DISEASE and EMERGENCY_INTERVENTION_NEEDED
\* and the follow-up schedule DAILY; EMERGENCY_INTERVENTION_NEEDED is
\* present exactly when CRITICAL_PLANT_HEALTH and SEVERE_DISEASE both are.
C18_Emergency ==
    Processed =>
        LET tags == TagSet(le_out.conditions)
        IN  /\ (/\ Get(le_in.health_score, 50) <= 20
                /\ Lower(Get(le_in.severity, STR_UNKNOWN)) = STR_SEVERE)
                  => /\ {"CRITICAL_PLANT_HEALTH", "SEVERE_DISEASE",
                         "EMERGENCY_INTERVENTION_NEEDED"} \subseteq tags
                     /\ le_out.follow_up.schedule = "DAILY"
            /\ "EMERGENCY_INTERVENTION_NEEDED" \in tags
                  <=> ("CRITICAL_PLANT_HEALTH" \in tags /\ "SEVERE_DISEASE" \in tags)

\* The scenario of the claim: health_score 15, severity 'severe'.
C18_Witness ==
    /\ Processed
    /\ le_in.health_score = Present(15)
    /\ le_in.severity = Present(STR_SEVERE)
    /\ "EMERGENCY_INTERVENTION_NEEDED" \in TagSet(le_out.conditions)
    /\ le_out.follow_up.schedule = "DAILY"

\* The schedule of a health score.
ScheduleOf(h) ==
    IF h <= 20 THEN "DAILY"
    ELSE IF h <= 40 THEN "EVERY_2_3_DAYS"
    ELSE IF h <= 60 THEN "WEEKLY"
    ELSE "BI_WEEKLY"

\* C19: the follow-up schedule is DAILY for health_score <= 20,
\* EVERY_2_3_DAYS up to 40, WEEKLY up to 60, BI_WEEKLY above; two non-empty
\* records with the same health_score get the same follow-up plan.
C19_FollowupByHealth ==
    /\ Processed => le_out.follow_up.schedule = ScheduleOf(le_out.health_score)
    /\ (/\ le_calls = 2
        /\ ~le_in.empty
        /\ ~le_prev.in.empty
        /\ le_out.health_score = le_prev.out.health_score)
          => le_out.follow_up = le_prev.out.follow_up

\* Two records of the same health score that differ in diagnosis, category,
\* severity and confidence got the same plan.
C19_Witness ==
    /\ le_calls = 2
    /\ ~le_in.empty
    /\ ~le_prev.in.empty
    /\ le_out.health_score = le_prev.out.health_score
    /\ le_out.original_analysis # le_prev.out.original_analysis
    /\ le_out.disease_category # le_prev.out.disease_category
    /\ le_out.severity # le_prev.out.severity
    /\ le_out.confidence # le_prev.out.confidence
    /\ le_out.follow_up = le_prev.out.follow_up
    /\ le_out.follow_up.schedule = "DAILY"

\* C20: process_analysis on an empty record returns the error response:
\* conditions [ERROR_PROCESSING_ANALYSIS], no suggestion, the urgent action
\* 'Error: Empty analysis', schedule IMMEDIATE_REVIEW, and the values no
\* evaluation gives: category None, risk level UNKNOWN.
C20_EmptyInput ==
    (le_calls > 0 /\ le_in.empty) =>
        /\ le_out.conditions = <<"ERROR_PROCESSING_ANALYSIS">>
        /\ le_out.suggestions = <<>>
        /\ le_out.urgent_actions = <<"Error: Empty analysis">>
        /\ le_out.follow_up.schedule = "IMMEDIATE_REVIEW"
        /\ le_out.disease_category = "None"
        /\ le_out.risk_assessment.risk_level = "UNKNOWN"

\* The empty record was processed.
C20_Witness ==
    /\ le_calls > 0
    /\ le_in.empty
    /\ le_out.conditions = <<"ERROR_PROCESSING_ANALYSIS">>
    /\ le_out.follow_up.reason = "Empty analysis"

(***************************************************************************)
(* Detector: invalid images (C21).                                         *)
(***************************************************************************)
\* The image of the call has fewer than 2 rows or fewer than 2 columns.
SmallMatrix(img) == ~img.isNone /\ (img.rows < 2 \/ img.cols < 2)

\* The invalid-image failure: success false, an error, no predictions.
InvalidImageFailure(out) ==
    /\ out.success = FALSE
    /\ out.error = "Invalid image provided"
    /\ out.predictions = <<>>

\* C21 as stated: for None, an empty or zero-sized matrix, and for a matrix
\* with fewer than 2 rows or fewer than 2 columns, detect_disease returns the
\* invalid-image failure and no predictions.
C21_Original ==
    det_out # None =>
        ((det_in.image.isNone \/ SizeZero(det_in.image)
              \/ SmallMatrix(det_in.image))
            => InvalidImageFailure(det_out))

\* C21 (amended): None and a zero-sized matrix give the invalid-image
\* failure; a non-empty 3-channel matrix with fewer than 2 rows or columns
\* is classified with edge_density 0 and the call succeeds with at least one
\* prediction; whenever success is false the prediction list is empty.
C21_InvalidImage ==
    det_out # None =>
        /\ (det_in.image.isNone \/ SizeZero(det_in.image))
              => InvalidImageFailure(det_out)
        /\ (SmallMatrix(det_in.image) /\ ~SizeZero(det_in.image)
                /\ det_in.image.ndim = 3 /\ det_in.image.channels = 3)
              => /\ det_out.success = TRUE
                 /\ det_out.feature_analysis.edge_density = 0
                 /\ Len(det_out.predictions) >= 1
        /\ det_out.success = FALSE => det_out.predictions = <<>>

\* C21 witness: a single-row colour image whose pixels differ along the row
\* was classified, with edge_density 0.
C21_Witness ==
    /\ det_out # None
    /\ det_in.image.rows = 1 /\ det_in.image.cols = 2
    /\ det_in.image.edges > 0
    /\ det_out.success = TRUE
    /\ det_out.feature_analysis.edge_density = 0
    /\ Len(det_out.predictions) >= 1

(***************************************************************************)
(* CareAdvisor (services/care_advisor.py).  A template of CARE_DATABASE is *)
(* a record keyed as the dict is; immediate_actions is the list of the     *)
(* source, a nested section is named by the object it is                   *)
(* ("leaf_spot.treatment"), which a shallow copy shares with the catalogue.*)
(***************************************************************************)
CARE_DATABASE ==
    [healthy |->
        [immediate_actions |->
            <<"Continue regular watering schedule",
              "Maintain current lighting conditions",
              "Keep monitoring for any changes">>,
         preventive_measures |-> "healthy.preventive_measures",
         watering |-> "healthy.watering",
         fertilizing |-> "healthy.fertilizing",
         sunlight |-> "healthy.sunlight"],
     leaf_spot |->
        [immediate_actions |->
            <<"Remove infected leaves immediately",
              "Isolate plant from others if possible",
              "Stop overhead watering",
              "Apply fungicide spray (neem oil or sulfur)",
              "Improve air circulation with a fan">>,
         treatment |-> "leaf_spot.treatment",
         preventive_measures |-> "leaf_spot.preventive_measures",
         watering |-> "leaf_spot.watering"],
     powdery_mildew |->
        [immediate_actions |->
            <<"Increase air circulation immediately",
              "Lower humidity levels",
              "Spray with fungicide",
              "Remove heavily affected leaves",
              "Avoid crowding plants together">>,
         treatment |-> "powdery_mildew.treatment",
         environmental |-> "powdery_mildew.environmental",
         preventive_measures |-> "powdery_mildew.preventive_measures"],
     rust |->
        [immediate_actions |->
            <<"Remove infected leaves at the first sign",
              "Improve air circulation",
              "Reduce leaf wetness duration",
              "Apply fungicide spray",
              "Lower humidity levels">>,
         treatment |-> "rust.treatment",
         watering |-> "rust.watering",
         preventive_measures |-> "rust.preventive_measures"],
     blight |->
        [immediate_actions |->
            <<"URGENT: Remove all infected parts immediately",
              "Destroy infected leaves (do not compost)",
              "Isolate plant from other plants",
              "Apply heavy fungicide treatment",
              "Consider destroying entire plant if severely affected">>,
         severity_warning |-> "This is a serious disease - act quickly!",
         treatment |-> "blight.treatment",
         quarantine |-> "blight.quarantine",
         recovery |-> "blight.recovery"],
     yellowing |->
        [immediate_actions |->
            <<"Check soil moisture level",
              "Assess drainage holes",
              "Look for root rot (smell foul odor)",
              "Check nutrient levels in soil">>,
         diagnosis_steps |-> "yellowing.diagnosis_steps",
         treatment |-> "yellowing.treatment",
         watering_guide |-> "yellowing.watering_guide"],
     wilting |->
        [immediate_actions |->
            <<"Check soil moisture immediately",
              "Feel if soil is dry or soggy",
              "Check for root damage or rot",
              "Provide immediate water or drainage correction">>,
         diagnosis |-> "wilting.diagnosis",
         watering |-> "wilting.watering"],
     pest_damage |->
        [immediate_actions |->
            <<"Isolate plant from other plants",
              "Inspect undersides of leaves closely",
              "Identify pest type (aphids, mites, scale, etc.)",
              "Apply appropriate treatment",
              "Monitor plant daily">>,
         treatment |-> "pest_damage.treatment",
         application_tips |-> "pest_damage.application_tips",
         preventive_measures |-> "pest_damage.preventive_measures"]]

\* _get_default_care: a fresh dict on every call.
get_default_care ==
    [immediate_actions |->
        <<"Assess plant condition carefully",
          "Ensure proper light and temperature",
          "Check soil moisture">>,
     general_care |-> "default.general_care"]

\* dict.get(key, default)
DictGet(d, key, default) == IF key \in DOMAIN d THEN d[key] ELSE default

\* d[key] = value on the dict d
DictSet(d, key, value) ==
    [k \in DOMAIN d \cup {key} |-> IF k = key THEN value ELSE d[k]]

\* The three keys _adjust_for_severity writes, by severity.
SeverityKeys(severity) ==
    IF severity = "severe"
    THEN [urgency |-> "CRITICAL - Act immediately",
          timeline |-> "24-48 hours for initial treatment",
          monitoring |-> "Check every 12 hours"]
    ELSE IF severity = "moderate"
    THEN [urgency |-> "High - Treat within 2-3 days",
          timeline |-> "1-2 weeks for significant improvement",
          monitoring |-> "Check every 2-3 days"]
    ELSE [urgency |-> "Standard - Treat within 1 week",
          timeline |-> "2-4 weeks for recovery",
          monitoring |-> "Check weekly"]

\* The writes adjusted['urgency'], adjusted['timeline'], adjusted['monitoring'].
WriteSeverityKeys(d, severity) ==
    DictSet(DictSet(DictSet(d, "urgency", SeverityKeys(severity).urgency),
                    "timeline", SeverityKeys(severity).timeline),
            "monitoring", SeverityKeys(severity).monitoring)

\* Mutant of _adjust_for_severity: the keys are written into the dict that
\* was passed in, not into a copy of it.
adjust_for_severity_InPlace(care_advice, severity) ==
    [care_advice |-> WriteSeverityKeys(care_advice, severity),
     adjusted |-> WriteSeverityKeys(care_advice, severity)]

\* _adjust_for_severity: adjusted = care_advice.copy(), then the three
\* writes on adjusted.  The result names the dict that was passed in as it is
\* after the call (care_advice) and the dict returned (adjusted).
adjust_for_severity(care_advice, severity) ==
    LET adjusted == [k \in DOMAIN care_advice |-> care_advice[k]]
    IN  [care_advice |-> care_advice,
         adjusted |-> WriteSeverityKeys(adjusted, severity)]

\* actions[:n]
Take(actions, n) == SubSeq(actions, 1, Min(n, Len(actions)))

\* Mutant of _extract_priority_actions: 'moderate' is cut like 'severe'.
extract_priority_actions_ModerateThree(care_advice, severity) ==
    LET actions == DictGet(care_advice, "immediate_actions", <<>>)
    IN  IF severity = "severe" THEN Take(actions, 3)
        ELSE IF severity = "moderate" THEN Take(actions, 3)
        ELSE actions

\* _extract_priority_actions
extract_priority_actions(care_advice, severity) ==
    LET actions == DictGet(care_advice, "immediate_actions", <<>>)
    IN  IF severity = "severe" THEN Take(actions, 3)
        ELSE IF severity = "moderate" THEN Take(actions, 5)
        ELSE actions

\* _generate_timeline: the same record for every disease and severity.
generate_timeline ==
    [assessment |-> "0-24 hours",
     initial_treatment |-> "0-24 hours",
     first_signs_improvement |-> "1-7 days",
     significant_improvement |-> "2-4 weeks",
     full_recovery |-> "1-3 months"]

\* _get_emergency_info
get_emergency_info(severity) ==
    IF severity = "severe"
    THEN [urgent |-> TRUE,
          recommendation |->
              "Consider consulting local extension office or expert"]
    ELSE [urgent |-> FALSE]

\* generate_care_plan on the catalogue db: the plan returned and the
\* catalogue as the call leaves it.  tips and faq are texts keyed by the
\* disease name alone and are named by it.
generate_care_plan(db, analysis_result) ==
    IF ~analysis_result.success
    THEN [db |-> db,
          plan |-> [success |-> FALSE,
                    error |-> "Cannot generate care plan from failed analysis"]]
    ELSE LET disease == analysis_result.disease_detection.primary_disease
             severity == analysis_result.disease_detection.severity
             confidence == analysis_result.disease_detection.confidence
             care_advice == DictGet(db, disease, get_default_care)
             adj == adjust_for_severity(care_advice, severity)
         IN  [db |-> IF disease \in DOMAIN db
                     THEN [db EXCEPT ![disease] = adj.care_advice]
                     ELSE db,
              plan |-> [success |-> TRUE,
                        disease |-> disease,
                        severity |-> severity,
                        confidence |-> confidence,
                        care_plan |-> adj.adjusted,
                        priority_actions |->
                            extract_priority_actions(adj.adjusted, severity),
                        timeline |-> generate_timeline,
                        tips |-> disease,
                        faq |-> disease,
                        emergency_contacts |-> get_emergency_info(severity)]]

(***************************************************************************)
(* CareAdvisor: inputs and the specification SpecCare, in which the shared *)
(* detector and advisor instances of the routes serve calls in any order.  *)
(***************************************************************************)
MaxCalls == 3

CareDiseases == {DISEASE_NAMES[i] : i \in DOMAIN DISEASE_NAMES}
                    \cup {"unknown_disease"}
CareSeverities == {"mild", "moderate", "severe", "unknown"}

\* The analysis records given to generate_care_plan; confidence in thousandths.
CareInputs ==
    {[success |-> TRUE,
      disease_detection |->
          [primary_disease |-> d, severity |-> s, confidence |-> 850]] :
        d \in CareDiseases, s \in CareSeverities}
    \cup {[success |-> FALSE, error |-> "Detection failed"]}

\* The detector calls made between the advisor's.
CareImages ==
    {NoImage} \cup
    {[isNone |-> FALSE, rows |-> 2, cols |-> 2, ndim |-> 3, channels |-> 3,
      green |-> g, edges |-> e, std |-> 0, mean |-> 128] :
        g \in {0, 10}, e \in {0, 10}}

InitCare ==
    /\ ca_db = CARE_DATABASE /\ det_db = DISEASE_DATABASE
    /\ ca_in = None /\ ca_out = None /\ ca_calls = 0
    /\ det_in = None /\ det_out = None /\ det_scores = NoScores
    /\ sev_in = None /\ sev_out = None
    /\ le_in = None /\ le_out = None /\ le_prev = None
    /\ le_engine = None /\ le_calls = 0
    /\ g_req = None /\ g_pc = "off" /\ g_model = 0 /\ g_phase = "none"
    /\ g_step1 = None /\ g_step2 = None /\ g_last_error = None
    /\ g_calls = <<>> /\ g_ret = None /\ rt_response = None
    /\ pl_in = None /\ pl_out = None
    /\ pj_in = None /\ pj_out = None

\* A call care_advisor.generate_care_plan(analysis_result).
GenerateCarePlan ==
    /\ ca_calls < MaxCalls
    /\ \E analysis_result \in CareInputs :
          LET r == generate_care_plan(ca_db, analysis_result)
          IN  /\ ca_in' = analysis_result
              /\ ca_out' = r.plan
              /\ ca_db' = r.db
    /\ ca_calls' = ca_calls + 1
    /\ UNCHANGED <<det_db, detVars, sevVars, leVars, gVars, pjVars, plVars>>

\* A call detect_disease(image, 0.7) on the shared detector: the catalogue is
\* read with DISEASE_DATABASE.get and left as it is.
CareDetect ==
    /\ ca_calls < MaxCalls
    /\ \E img \in CareImages :
          /\ det_in' = [image |-> img, confidence_threshold |-> 70]
          /\ det_out' = detect_disease(img, 70)
          /\ det_scores' = IF FeaturesComputable(img)
                           THEN calculate_disease_scores(extract_features(img))
                           ELSE NoScores
    /\ det_db' = det_db
    /\ ca_calls' = ca_calls + 1
    /\ UNCHANGED <<ca_db, ca_in, ca_out, sevVars, leVars, gVars, pjVars, plVars>>

NextCare == GenerateCarePlan \/ CareDetect

SpecCare == InitCare /\ [][NextCare]_vars

\* The template CARE_DATABASE.get(disease, default) selects.
SelectedTemplate(disease) ==
    IF disease \in DOMAIN CARE_DATABASE
    THEN CARE_DATABASE[disease] ELSE get_default_care

\* The last generate_care_plan call returned a care plan.
PlanReturned == ca_out # None /\ ca_out.success

\* C22: the priority_actions of a care plan are a prefix of the selected
\* template's immediate_actions: its first 3 for 'severe', its first 5 for
\* 'moderate', the whole list for any other severity.
C22_PriorityPrefix ==
    PlanReturned =>
        LET actions == SelectedTemplate(ca_out.disease).immediate_actions
            n == IF ca_out.severity = "severe" THEN 3
                 ELSE IF ca_out.severity = "moderate" THEN 5
                 ELSE Len(actions)
        IN  /\ ca_out.priority_actions = SubSeq(actions, 1, Min(n, Len(actions)))
            /\ \A i \in 1..Len(ca_out.priority_actions) :
                  ca_out.priority_actions[i] = actions[i]

\* C22 witness: a 'severe' plan for leaf_spot, whose five immediate actions
\* were cut to the first three.
C22_Witness ==
    /\ PlanReturned
    /\ ca_out.disease = "leaf_spot" /\ ca_out.severity = "severe"
    /\ Len(CARE_DATABASE["leaf_spot"].immediate_actions) = 5
    /\ ca_out.priority_actions =
          <<"Remove infected leaves immediately",
            "Isolate plant from others if possible",
            "Stop overhead watering">>

\* C27: after any sequence of detect_disease and generate_care_plan calls on
\* the shared instances, CARE_DATABASE and DISEASE_DATABASE are what they
\* were at import (urgency, timeline and monitoring are written into the
\* per-request copy only), and the output of the last call of each kind is
\* what that call returns when it is run alone on the fresh catalogues.
C27_CataloguesUnchanged ==
    /\ ca_db = CARE_DATABASE
    /\ det_db = DISEASE_DATABASE
    /\ \A d \in DOMAIN ca_db :
          DOMAIN ca_db[d] \cap {"urgency", "timeline", "monitoring"} = {}
    /\ ca_out # None => ca_out = generate_care_plan(CARE_DATABASE, ca_in).plan
    /\ det_out # None =>
          det_out = detect_disease(det_in.image, det_in.confidence_threshold)
    /\ PlanReturned =>
          DOMAIN ca_out.care_plan =
              DOMAIN SelectedTemplate(ca_out.disease)
                  \cup {"urgency", "timeline", "monitoring"}

\* C27 witness: three calls were made, among them a detection and a 'severe'
\* care plan for a catalogued disease, whose copy carries the urgency the
\* catalogue entry does not have.
C27_Witness ==
    /\ ca_calls = MaxCalls
    /\ det_out # None /\ det_out.success
    /\ PlanReturned
    /\ ca_out.disease = "blight" /\ ca_out.severity = "severe"
    /\ ca_out.care_plan.urgency = "CRITICAL - Act immediately"
    /\ "urgency" \notin DOMAIN ca_db["blight"]

(***************************************************************************)
(* Detector: the all-healthy feature vector (C24) and the ranking (C26).   *)
(***************************************************************************)
\* The features of the last call are greenness 1.0, edge_density 0.0,
\* damaged_pixels_ratio 0.0 and brightness 128.
AllHealthyFeatures ==
    /\ det_scores # NoScores
    /\ det_out.feature_analysis =
          [brightness |-> 128, greenness |-> 10, edge_density |-> 0,
           damaged_pixels_ratio |-> 0]

\* C24: for the feature vector greenness 1.0, edge_density 0.0, damage_ratio
\* 0.0, brightness 128 the label 'healthy' has normalised score 1.0, every
\* other label has score 0, and the primary disease is 'healthy' with
\* confidence 1.0.
C24_AllHealthy ==
    AllHealthyFeatures =>
        /\ det_scores[1].num = det_scores[1].den
        /\ \A i \in 2..8 : det_scores[i].num = 0
        /\ det_out.primary_disease.disease = "healthy"
        /\ det_out.primary_disease.confidence.num
              = det_out.primary_disease.confidence.den

\* C24 witness: such a call, made with a threshold of 0.7.
C24_Witness ==
    /\ AllHealthyFeatures
    /\ det_in.confidence_threshold = 70
    /\ det_out.success
    /\ det_out.primary_disease.disease = "healthy"

\* The catalogue position of a label.
LabelIndex(name) == CHOOSE i \in DOMAIN DISEASE_NAMES : DISEASE_NAMES[i] = name

\* Prediction p ranks before prediction q: a higher score, or the same score
\* and an earlier catalogue position.
RanksBefore(p, q) ==
    \/ RatLess(q.confidence, p.confidence)
    \/ /\ ~RatLess(p.confidence, q.confidence)
       /\ LabelIndex(p.disease) < LabelIndex(q.disease)

\* C26: the predictions are in non-increasing order of score with ties in
\* catalogue order, each carries its own label's score and catalogue
\* severity, unfiltered (threshold 0) they are the 5 best of the 8 labels,
\* and primary_disease is element 0 of the returned predictions and the
\* top-ranked of all 8 labels whatever the threshold.
C26_Ranking ==
    (det_out # None /\ det_out.success) =>
        LET preds == det_out.predictions
            returned == {preds[k].disease : k \in DOMAIN preds}
        IN  /\ \A k \in 1..(Len(preds) - 1) : RanksBefore(preds[k], preds[k + 1])
            /\ \A k \in DOMAIN preds :
                  /\ preds[k].confidence = det_scores[LabelIndex(preds[k].disease)]
                  /\ preds[k].severity = DISEASE_DATABASE[preds[k].disease]
            /\ det_in.confidence_threshold = 0 =>
                  /\ Len(preds) = 5
                  /\ Cardinality(returned) = 5
                  /\ \A i \in DOMAIN DISEASE_NAMES :
                        DISEASE_NAMES[i] \notin returned =>
                            RanksBefore(preds[5],
                                [disease |-> DISEASE_NAMES[i],
                                 confidence |-> det_scores[i]])
            /\ det_out.primary_disease = preds[1]
            /\ \A i \in DOMAIN DISEASE_NAMES :
                  DISEASE_NAMES[i] # det_out.primary_disease.disease =>
                      RanksBefore(det_out.primary_disease,
                          [disease |-> DISEASE_NAMES[i],
                           confidence |-> det_scores[i]])

\* C26 witness: a call whose two best labels tie (leaf_spot and rust, at
\* 1 - greenness = edge_density), returned in catalogue order, and whose
\* threshold no label reaches, so that the fallback element is the primary.
C26_Witness ==
    /\ det_out # None /\ det_out.success
    /\ det_in.confidence_threshold = 100
    /\ Len(det_out.predictions) = 1
    /\ \E i, j \in DOMAIN DISEASE_NAMES :
          /\ i < j
          /\ det_scores[i] = det_scores[j]
          /\ det_out.primary_disease.disease = DISEASE_NAMES[i]
          /\ det_out.primary_disease.confidence = det_scores[i]

\* C29: whenever the extractor produced features (greenness, edge_density
\* and damaged_pixels_ratio all >= 0, an all-black image included), the sum
\* of the raw scores is strictly positive, so the scores are normalised by
\* it: their common denominator is that sum and they add up to 1.
C29_SumPositive ==
    det_scores # NoScores =>
        /\ det_out.feature_analysis.greenness >= 0
        /\ det_out.feature_analysis.edge_density >= 0
        /\ det_out.feature_analysis.damaged_pixels_ratio >= 0
        /\ RawTotal > 0
        /\ \A i \in 1..8 : det_scores[i].den = RawTotal
        /\ SumSeq([i \in 1..8 |-> det_scores[i].num]) = RawTotal
        /\ \E i \in 1..8 : det_scores[i].num > 0

\* C29 witness: an all-black colour image (every feature 0): 'healthy' and
\* 'pest_damage' score 0 and the other labels share the distribution.
C29_Witness ==
    /\ det_scores # NoScores
    /\ det_out.feature_analysis =
          [brightness |-> 0, greenness |-> 0, edge_density |-> 0,
           damaged_pixels_ratio |-> 0]
    /\ det_in.image.ndim = 3
    /\ det_scores[1].num = 0 /\ det_scores[8].num = 0
    /\ RawTotal > 0
    /\ det_scores[5].den = RawTotal

\* The health-band contribution H, the severity contribution S and the
\* disease-type contribution T of the risk score.
RiskH(health_score) ==
    IF health_score <= 20 THEN 40 ELSE IF health_score <= 40 THEN 25 ELSE 0
RiskS(severity) ==
    IF severity = STR_SEVERE THEN 30 ELSE IF severity = STR_MODERATE THEN 15 ELSE 0
RiskT(diagnosis) ==
    IF ContainsAny(Lower(diagnosis), VIRAL_DISEASES) THEN 20
    ELSE IF ContainsAny(Lower(diagnosis), FUNGAL_DISEASES) THEN 15
    ELSE 0

C25_StressScoresFive ==
    /\ Processed
    /\ le_out.original_analysis = Lower(STR_ENVIRONMENTAL_STRESS_UPPER)
    /\ le_out.health_score = 100
    /\ le_out.risk_assessment.risk_score = 5

\* The fields whose healthy-plant default states that the plant is healthy.
HEALTHY_CLAIM_KEYS ==
    {"description", "treatment", "recovery_timeline", "risk_if_untreated"}

\* C28: in a returned result none of description, treatment,
\* recovery_timeline and risk_if_untreated holds the healthy-plant default
\* ('appears to be in good health', 'No treatment needed - plant is healthy',
\* 'N/A - Plant is healthy', 'No risk - plant is currently healthy.') unless
\* step 1 judged the plant healthy; a plant reported as not healthy with the
\* disease name 'Unknown' is not described as healthy.
C28_HealthyDefaultsOnlyWhenHealthy ==
    Succeeded =>
        \A k \in HEALTHY_CLAIM_KEYS :
            g_ret.result.fields[k].src = "healthy_default"
                => IsHealthyOf(g_step1)

(***************************************************************************)
(* GeminiAnalyzer._parse_json on the characters of the reply.  A text is a *)
(* sequence of characters over a small alphabet: the braces, "k" for one   *)
(* member of an object, " " for white space, "x" for prose, "~" for the    *)
(* backquote and the letters of the fence label.  The value of an object   *)
(* is its text without the white space, so that two texts of one object    *)
(* parse alike.                                                            *)
(***************************************************************************)
MaxPayloadLen == 4

FENCE == <<"~", "~", "~">>
FENCE_JSON == <<"~", "~", "~", "j", "s", "o", "n">>

SetMin(S) == CHOOSE x \in S : \A y \in S : x <= y
SetMax(S) == CHOOSE x \in S : \A y \in S : x >= y

\* str.strip()
Strip(s) ==
    LET solid == {i \in 1..Len(s) : s[i] # " "}
    IN  IF solid = {} THEN <<>> ELSE SubSeq(s, SetMin(solid), SetMax(solid))

\* str.startswith, str.endswith
StartsWith(s, prefix) ==
    Len(s) >= Len(prefix) /\ SubSeq(s, 1, Len(prefix)) = prefix
EndsWith(s, suffix) ==
    Len(s) >= Len(suffix)
        /\ SubSeq(s, Len(s) - Len(suffix) + 1, Len(s)) = suffix

\* The number of braces open after the first i characters of s.
Depth(s, i) ==
    Cardinality({j \in 1..i : s[j] = "{"})
        - Cardinality({j \in 1..i : s[j] = "}"})

\* json.loads: white space around the document is skipped; the document is
\* an object when it holds braces, members and white space only and its
\* first brace is closed by its last character.  It raises JSONDecodeError
\* (ok FALSE) otherwise.
json_loads(s) ==
    LET t == Strip(s)
    IN  IF /\ t # <<>>
           /\ \A i \in 1..Len(t) : t[i] \in {"{", "}", "k", " "}
           /\ \A i \in 1..(Len(t) - 1) : Depth(t, i) > 0
           /\ Depth(t, Len(t)) = 0
        THEN [ok |-> TRUE, value |-> SelectSeq(t, LAMBDA c : c # " ")]
        ELSE [ok |-> FALSE, value |-> <<>>]

\* What _parse_json returns: a parsed value, or None.
Parsed(value) == [value |-> value]

\* The regex search for a brace-delimited span: from the first opening
\* brace to the last closing brace after it.
regex_search(cleaned) ==
    LET opens == {i \in 1..Len(cleaned) : cleaned[i] = "{"}
        closes == {i \in 1..Len(cleaned) : cleaned[i] = "}"}
    IN  IF opens # {} /\ \E c \in closes : c > SetMin(opens)
        THEN [found |-> TRUE,
              group |-> SubSeq(cleaned, SetMin(opens), SetMax(closes))]
        ELSE [found |-> FALSE, group |-> <<>>]

\* The brace-counting loop from character i on; start is 0 for None.
RECURSIVE brace_scan(_, _, _, _)
brace_scan(cleaned, i, brace_count, start) ==
    IF i > Len(cleaned) THEN None
    ELSE IF cleaned[i] = "{"
    THEN brace_scan(cleaned, i + 1, brace_count + 1,
                    IF brace_count = 0 THEN i ELSE start)
    ELSE IF cleaned[i] = "}"
    THEN IF brace_count - 1 = 0 /\ start # 0
         THEN IF json_loads(SubSeq(cleaned, start, i)).ok
              THEN Parsed(json_loads(SubSeq(cleaned, start, i)).value)
              ELSE brace_scan(cleaned, i + 1, brace_count - 1, 0)
         ELSE brace_scan(cleaned, i + 1, brace_count - 1, start)
    ELSE brace_scan(cleaned, i + 1, brace_count, start)

\* Mutant of _parse_json: the stripped text is parsed as it is, without
\* removing fences and without the extraction steps.
parse_json_text_DirectOnly(text) ==
    IF json_loads(Strip(text)).ok
    THEN Parsed(json_loads(Strip(text)).value)
    ELSE None

\* _parse_json
parse_json_text(text) ==
    LET stripped == Strip(text)
        unfenced ==
            IF StartsWith(stripped, FENCE_JSON)
            THEN SubSeq(stripped, 8, Len(stripped))
            ELSE IF StartsWith(stripped, FENCE)
            THEN SubSeq(stripped, 4, Len(stripped))
            ELSE stripped
        unclosed ==
            IF EndsWith(unfenced, FENCE)
            THEN SubSeq(unfenced, 1, Len(unfenced) - 3)
            ELSE unfenced
        cleaned == Strip(unclosed)
        match == regex_search(cleaned)
    IN  IF json_loads(cleaned).ok
        THEN Parsed(json_loads(cleaned).value)
        ELSE IF match.found /\ json_loads(match.group).ok
        THEN Parsed(json_loads(match.group).value)
        ELSE brace_scan(cleaned, 1, 0, 0)

\* The texts of at most n characters over the alphabet.
RECURSIVE TextsUpTo(_, _)
TextsUpTo(alphabet, n) ==
    IF n = 0 THEN {<<>>}
    ELSE LET shorter == TextsUpTo(alphabet, n - 1)
         IN  shorter \cup {Append(t, c) : t \in shorter, c \in alphabet}

Payloads == TextsUpTo({"{", "}", "k", " ", "x"}, MaxPayloadLen)

\* The reply that wraps the payload in a fence with or without the label
\* json, the payload set off from the fences by sep (white space or nothing).
Wrap(payload, fence, sep) ==
    (IF fence = "json" THEN FENCE_JSON ELSE FENCE)
        \o sep \o payload \o sep \o FENCE

InitParse ==
    /\ pj_in \in [payload : Payloads, fence : {"json", "plain"},
                  sep : {<<>>, <<" ">>}]
    /\ pj_out = None
    /\ det_in = None /\ det_out = None /\ det_scores = NoScores
    /\ sev_in = None /\ sev_out = None
    /\ le_in = None /\ le_out = None /\ le_prev = None
    /\ le_engine = None /\ le_calls = 0
    /\ g_req = None /\ g_pc = "off" /\ g_model = 0 /\ g_phase = "none"
    /\ g_step1 = None /\ g_step2 = None /\ g_last_error = None
    /\ g_calls = <<>> /\ g_ret = None /\ rt_response = None
    /\ pl_in = None /\ pl_out = None
    /\ ca_db = None /\ ca_in = None /\ ca_out = None /\ ca_calls = 0 /\ det_db = None

\* _parse_json on the wrapped payload and on the payload alone.
ParseJson ==
    /\ pj_out = None
    /\ pj_out' = [wrapped |-> parse_json_text(
                                  Wrap(pj_in.payload, pj_in.fence, pj_in.sep)),
                  plain |-> parse_json_text(pj_in.payload)]
    /\ UNCHANGED <<pj_in, detVars, sevVars, leVars, gVars, caVars, plVars>>

NextParse == ParseJson

SpecParse == InitParse /\ [][NextParse]_vars

\* The payload is the text of a JSON object: braces, members and white
\* space only, the first brace closed by the last one.
IsObjectText(p) ==
    LET t == SelectSeq(p, LAMBDA c : c # " ")
    IN  /\ t # <<>>
        /\ \A i \in 1..Len(p) : p[i] \in {"{", "}", "k", " "}
        /\ \A i \in 1..(Len(t) - 1) : Depth(t, i) > 0
        /\ Depth(t, Len(t)) = 0

\* C23: for every payload P that parses as a JSON object, _parse_json of P
\* wrapped in a json-labelled or a bare code fence returns what _parse_json of P
\* alone returns, and that is the object P denotes.
C23_FencedParsesAlike ==
    (pj_out # None /\ IsObjectText(pj_in.payload)) =>
        /\ pj_out.wrapped = pj_out.plain
        /\ pj_out.plain = Parsed(SelectSeq(pj_in.payload, LAMBDA c : c # " "))

\* C23 witness: the object '{ k}' in a json fence that touches it parsed to
\* the value of '{k}' both ways.
C23_Witness ==
    /\ pj_out # None
    /\ pj_in.payload = <<"{", " ", "k", "}">>
    /\ pj_in.fence = "json" /\ pj_in.sep = <<>>
    /\ pj_out.wrapped = Parsed(<<"{", "k", "}">>)
    /\ pj_out.plain = Parsed(<<"{", "k", "}">>)

(***************************************************************************)
(* The rule-based pipeline PlantAnalyzer.analyze_plant_image with the      *)
(* ImageProcessor steps (services/image_processor.py).  A decoded image is *)
(* given by statistics of its 8-bit pixels, in grey levels 0..255: the     *)
(* standard deviation of each of the regions extract_roi samples, and the  *)
(* standard deviation, mean and edge density of the whole image; its       *)
(* greenness is a ratio of means (tenths) and does not depend on the       *)
(* scale.  A statistic of a float array is the exact fraction num/den.     *)
(***************************************************************************)
TARGET_SIZE == 224
focus_areas == 5

\* image_array / 255.0: every statistic of the array is scaled by 1/255.
Normalized(level) == [num |-> level, den |-> 255]

\* The least integer >= a / b, for b > 0.
CeilDiv(a, b) == (a + b - 1) \div b

\* preprocess_image: RGB, resized to TARGET_SIZE, float32, divided by 255.
preprocess_image(image) ==
    [roi_std |-> [i \in DOMAIN image.roi_std |-> Normalized(image.roi_std[i])],
     std |-> Normalized(image.std),
     mean |-> Normalized(image.mean),
     edges |-> Normalized(image.edges),
     green |-> image.green]

\* (image_array * 255).astype(np.uint8) on a statistic
ToUint8(stat) == ((stat.num * 255) \div stat.den) % 256

\* enhance_image: back to 8 bits, CLAHE on the lightness, divided by 255
\* again; the array as it is when OpenCV raises.  CLAHE either leaves the
\* contrast (clahe "same") or stretches it as far as 8 bits go ("stretched").
enhance_image(image_array, clahe) ==
    IF clahe = "raises" THEN image_array
    ELSE [roi_std |->
              [i \in DOMAIN image_array.roi_std |->
                  Normalized(IF clahe = "stretched" THEN 128
                             ELSE ToUint8(image_array.roi_std[i]))],
          std |-> Normalized(IF clahe = "stretched" THEN 128
                             ELSE ToUint8(image_array.std)),
          mean |-> Normalized(ToUint8(image_array.mean)),
          edges |-> Normalized(IF clahe = "stretched" THEN 255
                               ELSE ToUint8(image_array.edges)),
          green |-> image_array.green]

\* Mutant of extract_roi: the regions are cut from the 8-bit image, whose
\* pixel values are in 0..255.
extract_roi_EightBit(image_array) ==
    [i \in 1..Min(focus_areas, Len(image_array.roi_std)) |->
        [num |-> 255 * image_array.roi_std[i].num,
         den |-> image_array.roi_std[i].den]]

\* extract_roi: the first focus_areas cells of the 3 x 3 grid, each given
\* by np.std of its data.
extract_roi(image_array) ==
    SubSeq(image_array.roi_std, 1, Min(focus_areas, Len(image_array.roi_std)))

\* The array as the detector model reads it: edge density in tenths, the
\* standard deviation in units of 25.5, the mean in whole units.
DetectorView(image_array) ==
    [isNone |-> FALSE, rows |-> TARGET_SIZE, cols |-> TARGET_SIZE,
     ndim |-> 3, channels |-> 3,
     green |-> image_array.green,
     edges |-> (10 * image_array.edges.num) \div image_array.edges.den,
     std |-> (10 * image_array.std.num) \div (255 * image_array.std.den),
     mean |-> image_array.mean.num \div image_array.mean.den]

\* _estimate_damage, min(std / 255, 1.0), in hundredths rounded up: the
\* tests damage_ratio > 0.6 and > 0.3 are exact on it.
DamageHundredths(image_array) ==
    Min(100, CeilDiv(100 * image_array.std.num, 255 * image_array.std.den))

\* np.std of a region rounded up: the test > 15 is exact on it.
RoiStd(stat) == CeilDiv(stat.num, stat.den)

\* analyze_plant_image
analyze_plant_image(upload, confidence_threshold) ==
    IF ~upload.valid
    THEN [success |-> FALSE, error |-> "validation error",
          stage |-> "validation"]
    ELSE IF ~upload.readable
    THEN [success |-> FALSE, error |-> "Analysis failed", stage |-> "analysis"]
    ELSE LET image_array == preprocess_image(upload.image)
             enhanced_image == enhance_image(image_array, upload.clahe)
             roi_list == extract_roi(enhanced_image)
             disease_detection ==
                 detect_disease(DetectorView(enhanced_image),
                                confidence_threshold)
         IN  IF ~disease_detection.success
             THEN [success |-> FALSE, error |-> disease_detection.error,
                   stage |-> "detection"]
             ELSE LET primary_disease == disease_detection.primary_disease
                      severity_analysis ==
                          analyze_severity(
                              primary_disease,
                              [damaged_pixels_ratio |->
                                   DamageHundredths(enhanced_image)],
                              [i \in DOMAIN roi_list |-> RoiStd(roi_list[i])])
                  IN  [success |-> TRUE,
                       disease_detection |->
                           [primary_disease |-> primary_disease.disease,
                            confidence |-> primary_disease.confidence,
                            severity |-> severity_analysis.severity_level],
                       predictions |-> disease_detection.predictions,
                       roi_list |-> roi_list,
                       severity_details |-> severity_analysis]

\* The uploads: the region and image deviations range from a flat image
\* to the largest deviation 8-bit pixels can have.
PixelStds == {0, 16, 128}
PipelineImages ==
    [roi_std : [1..focus_areas -> PixelStds], std : {0, 128},
     mean : {0, 255}, edges : {0, 255}, green : {0, 10}]
FlatImage ==
    [roi_std |-> [i \in 1..focus_areas |-> 0], std |-> 0, mean |-> 0,
     edges |-> 0, green |-> 0]
Uploads ==
    [valid : {TRUE}, readable : {TRUE}, image : PipelineImages,
     clahe : {"same", "stretched", "raises"}]
    \cup [valid : {TRUE, FALSE}, readable : {FALSE}, image : {FlatImage},
          clahe : {"same"}]

InitPipeline ==
    /\ pl_in \in Uploads
    /\ pl_out = None
    /\ det_in = None /\ det_out = None /\ det_scores = NoScores
    /\ sev_in = None /\ sev_out = None
    /\ le_in = None /\ le_out = None /\ le_prev = None
    /\ le_engine = None /\ le_calls = 0
    /\ g_req = None /\ g_pc = "off" /\ g_model = 0 /\ g_phase = "none"
    /\ g_step1 = None /\ g_step2 = None /\ g_last_error = None
    /\ g_calls = <<>> /\ g_ret = None /\ rt_response = None
    /\ pj_in = None /\ pj_out = None
    /\ ca_db = None /\ ca_in = None /\ ca_out = None /\ ca_calls = 0 /\ det_db = None

\* The call analyze_plant_image(image_file) with the default threshold 0.7.
AnalyzePlantImage ==
    /\ pl_out = None
    /\ pl_out' = analyze_plant_image(pl_in, 70)
    /\ UNCHANGED <<pl_in, detVars, sevVars, leVars, gVars, caVars, pjVars>>

NextPipeline == AnalyzePlantImage

SpecPipeline == InitPipeline /\ [][NextPipeline]_vars

\* C30: on the rule-based path every region the sampler returns has pixel
\* values in [0,1], hence a standard deviation of at most 1 and never above
\* 15; no region is affected, the damage ratio stays below 0.3, and the
\* calculated severity is 'mild' with progression 'early_stage' for every
\* analysed image: 'moderate' and 'severe' are never returned.
C30_AlwaysMild ==
    (pl_out # None /\ pl_out.success) =>
        /\ \A i \in DOMAIN pl_out.roi_list :
              pl_out.roi_list[i].num <= pl_out.roi_list[i].den
        /\ pl_out.severity_details.affected_area.num = 0
        /\ pl_out.severity_details.damage_extent < 30
        /\ pl_out.severity_details.calculated_severity = "mild"
        /\ pl_out.severity_details.progression_stage = "early_stage"
        /\ pl_out.disease_detection.severity = "mild"

\* C30 witness: an upload whose regions and whole image all have the
\* largest deviation, contrast-stretched by CLAHE, was analysed as 'mild'.
C30_Witness ==
    /\ pl_out # None /\ pl_out.success
    /\ \A i \in 1..focus_areas : pl_in.image.roi_std[i] = 128
    /\ pl_in.image.std = 128
    /\ pl_in.clahe = "stretched"
    /\ Len(pl_out.roi_list) = 5
    /\ pl_out.severity_details.calculated_severity = "mild"

====
